---- MODULE Spec2Model ----
(***************************************************************************)
(* A model of the DuckDB shell bridge of feathercharts.                     *)
(*                                                                         *)
(*   - src/src/server.ts: class DuckDB (one CLI subprocess driven over its  *)
(*     stdin/stdout/stderr), runCmd with the "Run Time:" completion         *)
(*     detector, the query-history recorder and the POST /api/query        *)
(*     handler.                                                            *)
(*   - src/server.ts and its later revision: handleWebSocket, which pairs  *)
(*     one WebSocket with one CLI subprocess, and src/src/client.vue, the  *)
(*     browser client that sends commands and shows the tagged output.     *)
(*   - getDuckDB / ensureDuckDB and the start of the program; DuckDB.query  *)
(*     and the REST routes that call it; the handlers of /import, /export, *)
(*     /query and the parquet branch, which hand a temporary file to the    *)
(*     engine.                                                             *)
(*                                                                         *)
(* Text is a sequence of one-character strings.  Stretches of text whose    *)
(* inner structure no code looks at are single symbols: "d" is a stretch   *)
(* of result text, "e" a stretch of error text, "n" a newline, and the      *)
(* marker "Run Time:" is the two symbols "R","T" so that it can be split    *)
(* across two chunks.                                                      *)
(***************************************************************************)
EXTENDS Integers, Sequences, FiniteSets, TLC

\* ------------------------------------------------------------------ bounds
MaxReq == 1          \* HTTP requests to POST /api/query in one run
MaxElapsed == 1      \* largest elapsed time the clock measures (whole units)
MaxSaves == 1        \* direct calls of saveQueryHistory in one run
MaxTextLen == 2      \* longest text handed to saveQueryHistory
MaxSend == 2         \* commands the browser client sends in one run
MaxConn == 1         \* WebSocket connections opened in one run
MaxClock == 1        \* ticks of the browser's clock in one run
MaxQueryLen == 2     \* longest text typed into the input box
MaxSubmit == 1       \* commands submitted from the input box in one run
MaxSessions == 2     \* WebSocket sessions the server accepts in one run
MaxMsgs == 1         \* lines a subprocess leaves unread on its input
MaxRelay == 2        \* commands relayed to the subprocess in one run
MaxClose == 2        \* calls of DuckDB.close() in one run
MaxBoots == 2        \* starts of the server program in one run
MaxSpawn == 1        \* CLI processes one running server spawns
MaxNav == 2          \* commands sent while the history is navigated
MaxFrames == 3       \* text frames one client sends on its connection
MaxFilters == 2      \* most filter parameters, or body fields, of one request
MaxPrepared == 3     \* calls of DuckDB.query in one run
MaxJobs == 2         \* requests to the file-handling endpoints in one run

\* ------------------------------------------------------------------- text
RECURSIVE TrimStart(_), TrimEnd(_)

IsSpace(ch) == ch \in {"n", " "}

TrimStart(s) ==
  IF s = <<>> THEN s
  ELSE IF IsSpace(Head(s)) THEN TrimStart(Tail(s)) ELSE s

TrimEnd(s) ==
  IF s = <<>> THEN s
  ELSE IF IsSpace(s[Len(s)]) THEN TrimEnd(SubSeq(s, 1, Len(s) - 1)) ELSE s

\* String.prototype.trim
Trim(s) == TrimEnd(TrimStart(s))

\* out.includes("Run Time:")
HasMarker(out) == \E i \in 1..(Len(out) - 1) : out[i] = "R" /\ out[i + 1] = "T"

\* err.includes("\n")
HasNewline(err) == \E i \in 1..Len(err) : err[i] = "n"

\* ------------------------------------------------------------- hashQuery
\* The characters request texts are made of, with their code points.
Alphabet == <<"s", ";", ".", "x", "'">>

CharCode(ch) == CHOOSE i \in 1..Len(Alphabet) : Alphabet[i] = ch

HexDigits == <<"0", "1", "2", "3", "4", "5", "6", "7", "8", "9",
               "a", "b", "c", "d", "e", "f">>

RECURSIVE Digest(_)
\* crypto.subtle.digest: SHA-256 is stood for by a one-byte positional code
\* of the text, which is free of collisions on texts of up to three
\* characters, as SHA-256 is in practice on all texts.
Digest(str) ==
  IF str = <<>> THEN 0
  ELSE (CharCode(Head(str)) + 6 * Digest(Tail(str))) % 256

\* b.toString(16).padStart(2, '0')
ByteToHex(b) == <<HexDigits[(b \div 16) + 1], HexDigits[(b % 16) + 1]>>

hashQuery(str) == ByteToHex(Digest(str))

\* ------------------------------------------------------ saveQueryHistory
RECURSIVE EscapeQuotes(_), NumberToString(_)

\* queryText.replace(/'/g, "''")
EscapeQuotes(text) ==
  IF text = <<>> THEN <<>>
  ELSE (IF Head(text) = "'" THEN <<"'", "'">> ELSE <<Head(text)>>)
       \o EscapeQuotes(Tail(text))

\* `${queryTime}`
NumberToString(k) ==
  IF k < 10 THEN <<HexDigits[k + 1]>>
  ELSE NumberToString(k \div 10) \o <<HexDigits[(k % 10) + 1]>>

\* The INSERT statement saveQueryHistory builds.  "INSERT" stands for the
\* text up to "VALUES (", "NOW" for CURRENT_TIMESTAMP.
InsertCmd(queryHash, queryText, resultFile, queryTime) ==
  <<"INSERT", "'">> \o queryHash \o <<"'", ",", "'">>
    \o EscapeQuotes(queryText) \o <<"'", ",", "'">>
    \o resultFile \o <<"'", ",">>
    \o NumberToString(queryTime) \o <<",", "NOW", ")", ";">>

\* initQueryHistoryTable's statement
CreateTableCmd == <<"CREATE", ";">>

\* ---------------------------------------------- the CLI's reading of SQL
RECURSIVE ReadLiteral(_, _, _), ReadNumber(_, _, _)

\* A quoted SQL string starting after its opening quote at s[i]: '' is one
\* quote, a single ' ends the string.
ReadLiteral(s, i, acc) ==
  IF i > Len(s) THEN [ok |-> FALSE, value |-> acc, next |-> i]
  ELSE IF s[i] = "'"
       THEN IF i < Len(s) /\ s[i + 1] = "'"
            THEN ReadLiteral(s, i + 2, Append(acc, "'"))
            ELSE [ok |-> TRUE, value |-> acc, next |-> i + 1]
       ELSE ReadLiteral(s, i + 1, Append(acc, s[i]))

DigitValue(ch) == CHOOSE k \in 0..9 : HexDigits[k + 1] = ch

IsDigit(ch) == \E k \in 0..9 : HexDigits[k + 1] = ch

ReadNumber(s, i, acc) ==
  IF i <= Len(s) /\ IsDigit(s[i])
  THEN ReadNumber(s, i + 1, [ok |-> TRUE, value |-> 10 * acc.value + DigitValue(s[i]), next |-> i + 1])
  ELSE acc

Expect(s, i, sym) == i <= Len(s) /\ s[i] = sym

\* The row an INSERT INTO _query_history statement inserts, or ok = FALSE
\* when the statement is not well formed SQL.
ParseInsert(s) ==
  LET bad == [ok |-> FALSE]
  IN IF ~(Expect(s, 1, "INSERT") /\ Expect(s, 2, "'")) THEN bad
     ELSE LET h == ReadLiteral(s, 3, <<>>)
     IN IF ~(h.ok /\ Expect(s, h.next, ",") /\ Expect(s, h.next + 1, "'")) THEN bad
     ELSE LET t == ReadLiteral(s, h.next + 2, <<>>)
     IN IF ~(t.ok /\ Expect(s, t.next, ",") /\ Expect(s, t.next + 1, "'")) THEN bad
     ELSE LET f == ReadLiteral(s, t.next + 2, <<>>)
     IN IF ~(f.ok /\ Expect(s, f.next, ",")) THEN bad
     ELSE LET q == ReadNumber(s, f.next + 1, [ok |-> FALSE, value |-> 0, next |-> f.next + 1])
     IN IF ~(q.ok /\ Expect(s, q.next, ",") /\ Expect(s, q.next + 1, "NOW")
             /\ Expect(s, q.next + 2, ")") /\ Expect(s, q.next + 3, ";")
             /\ Len(s) = q.next + 3) THEN bad
     ELSE [ok |-> TRUE,
           row |-> [query_hash |-> h.value, query_text |-> t.value,
                    result_file |-> f.value, query_time |-> q.value]]

\* =========================================================================
\* src/src/server.ts: class DuckDB, createRestApi, main
\* =========================================================================
VARIABLES
  mainPc,       \* main(): "main" before new DuckDB(...), then "listening"
  procAlive,    \* the CLI subprocess is running
  echo,         \* the CLI's .echo setting
  timer,        \* the CLI's .timer setting
  tableExists,  \* _query_history exists in the database
  history,      \* the rows of _query_history, oldest first
  files,        \* the files under html/queries
  stdin,        \* what was written to the process input and not yet consumed
  stdout,       \* chunks of primary output not yet read
  stderr,       \* chunks of diagnostic output not yet read
  stdoutReads,  \* pending this.stdout.read() requests (call ids), oldest first
  stderrReads,  \* pending this.stderr.read() requests (call ids), oldest first
  calls,        \* the runCmd calls made so far
  diagnosed,    \* the calls whose command the CLI answered on stderr
  saved,        \* the direct calls of saveQueryHistory: arguments and call id
  reqs          \* the POST /api/query requests made so far

restVars == <<mainPc, procAlive, echo, timer, tableExists, history, files,
              stdin, stdout, stderr, stdoutReads, stderrReads, calls,
              diagnosed, saved, reqs>>

procVars == <<procAlive, echo, timer, tableExists, history, files, stdin,
              stdout, stderr>>

\* src/server.ts handleWebSocket and src/src/client.vue duckdbApp
VARIABLES
  conns,             \* WebSocket connections opened so far
  wsOpen,            \* the connection is open
  duckdbProcess,     \* the connection's CLI subprocess is running
  toServer,          \* frames sent by the client, not yet delivered
  toClient,          \* frames sent by the server, not yet delivered
  wsStdin,           \* lines written to the subprocess, not yet consumed
  wsStdout,          \* chunks of its primary output, not yet read
  wsStderr,          \* chunks of its diagnostic output, not yet read
  written,           \* every line stdinWriter.write has written, in order
  sent,              \* every frame ws.send has sent to the client, in order
  succeeded,          \* the commands the subprocess ran without error, in order
  framing,           \* how frames to the client are written: "json" or "prefix"
  wsReads,           \* the chunks the reader tasks have read, in read order
  currentQuery,      \* client: the text in the input box
  previousCommands,  \* client: the Command Records, newest first
  commandIndex,      \* client: the history cursor
  output,            \* client: what the output pane shows, oldest first
  dbName,            \* client: the database banner
  loading,           \* client: a command is awaiting its answer
  startTime,         \* client: Date.now() at the last send
  now                \* the clock Date.now() reads

wsVars == <<conns, wsOpen, duckdbProcess, toServer, toClient, wsStdin,
            wsStdout, wsStderr, written, sent, succeeded, framing, wsReads>>

clientVars == <<currentQuery, previousCommands, commandIndex, output, dbName,
                loading, startTime, now>>

\* src/src/server.ts DuckDB.close
VARIABLES
  stdinClosed,       \* this.stdin has been closed
  closeCalls         \* the calls of close(), in call order, with their state

handleVars == <<stdinClosed, closeCalls>>

\* src/server.ts: the server and its handleWebSocket sessions
VARIABLES
  serverUp,          \* the server program is running
  sessions,          \* one record per handleWebSocket call, in call order
  procs              \* one record per spawned subprocess, in spawn order

sessVars == <<serverUp, sessions, procs>>

\* The start of the server program: getDuckDB / ensureDuckDB and main
VARIABLES
  build,             \* the revision that runs: "cwd" (src/server.ts) or "tmp"
  os,                \* Deno.build.os
  arch,              \* Deno.build.arch
  onPath,            \* `which duckdb` prints the path of an existing file
  cached,            \* the install location holds the binary
  bootPc,            \* where the program is in its start
  dbPath,            \* the path the provisioner returned
  url,               \* the archive the install command is given
  ensureLog,         \* one record per call of the provisioner, in call order
  spawned            \* CLI processes spawned by the running program

bootVars == <<build, os, arch, onPath, cached, bootPc, dbPath, url, ensureLog,
              spawned>>

\* The HTTP handlers that hand a temporary file to the engine
VARIABLES
  jobs,              \* one record per request, in arrival order
  tables             \* the tables the engine holds

fileVars == <<jobs, tables>>

\* DuckDB.query
VARIABLES
  prepared           \* the statements DuckDB.query has built, in call order

bindVars == <<prepared>>

\* handleWebSocket: one connection with its handlers and reader tasks
VARIABLES
  link               \* the socket, the pipes, the subprocess and the tasks

linkVars == <<link>>

hostVars == <<bootVars, fileVars, bindVars, linkVars>>

coreVars == <<restVars, wsVars, clientVars, handleVars, sessVars>>

\* No connection yet. sock: "none", "open", "closing" once the peer has
\* closed and the close event waits, "closed" once ws.onclose has run.
\* inbox: message events waiting; lines: lines in the subprocess's input;
\* out, err: chunks in its output pipes; sends, writes: calls of ws.send and
\* of stdinWriter.write; lateSends, lateWrites: those made after ws.onclose
\* ran; up: the server program runs.
NoLink ==
  [sock |-> "none", inbox |-> 0, frames |-> 0, lines |-> 0, out |-> 0,
   err |-> 0, child |-> "none", writer |-> "none", sends |-> 0, writes |-> 0,
   lateSends |-> 0, lateWrites |-> 0, up |-> TRUE]

\* The texts a request body is drawn from: "SELECT 1;" and ".exit".
QSelect == <<"s", ";">>
QExit == <<".", "x">>
Queries == {QSelect, QExit}
Formats == {"json", "parquet"}

EchoOnCmd == <<".", "e">>
TimerOnCmd == <<".", "t">>

\* `queries/${hash}.sql`, `queries/${hash}.parquet`
SqlPath(hash) == <<"q", "/">> \o hash \o <<".", "s">>
ParquetPath(hash) == <<"q", "/">> \o hash \o <<".", "p">>

\* `COPY (${query}) TO 'html/${parquetPath}' (FORMAT PARQUET);`
CopyCmd(query, path) == <<"COPY", "(">> \o query \o <<")", "TO", "'">> \o path \o <<"'", ";">>

\* ---------------------------------------------------------------- runCmd
\* The state of a runCmd call at its first await: the write is issued.
NewCall(cmd) == [cmd |-> cmd, pc |-> "write", out |-> <<>>, err |-> <<>>]

\* new TextEncoder().encode(cmd + "\n")
Line(cmd) == cmd \o <<"n">>

\* What stdin.write leaves in the pipe: nothing once the process is gone.
Written(pipe, alive, cmd) == IF alive THEN Append(pipe, Line(cmd)) ELSE pipe

Settled(c) == calls[c].pc \in {"returned", "threw"}

\* The write promises settle in the order the writes were issued.
OldestWrite(c) == \A d \in 1..(c - 1) : calls[d].pc # "write"

\* await this.stdin.write(...) settles; the first this.stdout.read() is issued.
WriteDone(c) ==
  /\ calls[c].pc = "write"
  /\ OldestWrite(c)
  /\ IF procAlive
     THEN /\ calls' = [calls EXCEPT ![c].pc = "readOut"]
          /\ stdoutReads' = Append(stdoutReads, c)
     ELSE \* the write rejects; err stands for the message of what is thrown
          /\ calls' = [calls EXCEPT ![c].pc = "threw", ![c].err = <<"e">>]
          /\ UNCHANGED stdoutReads
  /\ UNCHANGED <<mainPc, procVars, stderrReads, diagnosed, saved, reqs>>
  /\ UNCHANGED <<hostVars, wsVars, clientVars, handleVars, sessVars>>

\* The loop over this.stdout.read(): break on done or on the marker.
StdoutBreak(out, done) == done \/ HasMarker(out)

\* One this.stdout.read() of call c settles.
ReadStdout(c) ==
  /\ calls[c].pc = "readOut"
  /\ stdoutReads # <<>> /\ Head(stdoutReads) = c
  /\ stdout # <<>> \/ ~procAlive
  /\ LET done == stdout = <<>>
         out == IF done THEN calls[c].out ELSE calls[c].out \o Head(stdout)
     IN /\ stdout' = IF done THEN stdout ELSE Tail(stdout)
        /\ IF StdoutBreak(out, done)
           THEN /\ calls' = [calls EXCEPT ![c].out = out, ![c].pc = "readErr"]
                /\ stdoutReads' = Tail(stdoutReads)
                /\ stderrReads' = Append(stderrReads, c)
           ELSE /\ calls' = [calls EXCEPT ![c].out = out]
                /\ stdoutReads' = Append(Tail(stdoutReads), c)
                /\ UNCHANGED stderrReads
  /\ UNCHANGED <<mainPc, procAlive, echo, timer, tableExists, history, files,
                 stdin, stderr, diagnosed, saved, reqs>>
  /\ UNCHANGED <<hostVars, wsVars, clientVars, handleVars, sessVars>>

\* The loop over this.stderr.read(): break on done or on a newline.
StderrBreak(err, done) == done \/ HasNewline(err)

\* if (err) throw new Error(err.trim()); return out.trim();
Outcome(err) == IF err # <<>> THEN "threw" ELSE "returned"

\* One this.stderr.read() of call c settles.
ReadStderr(c) ==
  /\ calls[c].pc = "readErr"
  /\ stderrReads # <<>> /\ Head(stderrReads) = c
  /\ stderr # <<>> \/ ~procAlive
  /\ LET done == stderr = <<>>
         err == IF done THEN calls[c].err ELSE calls[c].err \o Head(stderr)
     IN /\ stderr' = IF done THEN stderr ELSE Tail(stderr)
        /\ IF StderrBreak(err, done)
           THEN /\ calls' = [calls EXCEPT ![c].err = err, ![c].pc = Outcome(err)]
                /\ stderrReads' = Tail(stderrReads)
           ELSE /\ calls' = [calls EXCEPT ![c].err = err]
                /\ stderrReads' = Append(Tail(stderrReads), c)
  /\ UNCHANGED <<mainPc, procAlive, echo, timer, tableExists, history, files,
                 stdin, stdout, stdoutReads, diagnosed, saved, reqs>>
  /\ UNCHANGED <<hostVars, wsVars, clientVars, handleVars, sessVars>>

\* ----------------------------------------------------------- constructor
\* new DuckDB(path, file): spawn, then runCmd(".echo on"), runCmd(".timer on")
\* and initQueryHistoryTable() are called one after the other, none awaited.
InitCmds == <<EchoOnCmd, TimerOnCmd, CreateTableCmd>>

Construct ==
  /\ mainPc = "main"
  /\ mainPc' = "listening"
  /\ procAlive' = TRUE
  /\ calls' = [i \in 1..Len(InitCmds) |-> NewCall(InitCmds[i])]
  /\ stdin' = [i \in 1..Len(InitCmds) |-> Line(InitCmds[i])]
  /\ UNCHANGED <<echo, timer, tableExists, history, files, stdout, stderr,
                 stdoutReads, stderrReads, diagnosed, saved, reqs>>
  /\ UNCHANGED <<hostVars, wsVars, clientVars, handleVars, sessVars>>

\* ------------------------------------------------- the DuckDB CLI process
\* The CLI is not part of the repository: it is the environment.  It takes
\* the written lines in order and answers each on stdout and stderr.  What a
\* statement does to the database is the engine's business; whether a user
\* statement succeeds is chosen freely.  The process ends when it is told to
\* (.exit).

EchoText(cmd) == IF echo /\ cmd # EchoOnCmd THEN <<"d", "n">> ELSE <<>>

TimerText == IF timer THEN <<"R", "T", "n">> ELSE <<>>

\* A text as the chunks read() may deliver it in: whole, or cut inside the
\* marker.
Chunkings(text) ==
  IF text = <<>> THEN {<<>>}
  ELSE {<<text>>} \cup
       {<<SubSeq(text, 1, i), SubSeq(text, i + 1, Len(text))>> :
          i \in {j \in 1..(Len(text) - 1) : text[j] = "R" /\ text[j + 1] = "T"}}

\* What a statement that succeeds prints: its echo, its rows, the timer line.
SuccessOutputs(cmd) ==
  {[out |-> o, err |-> <<>>] : o \in Chunkings(EchoText(cmd) \o <<"d", "n">> \o TimerText)}

\* What a statement that fails prints: an error line on stderr, whole or in
\* two chunks, and on stdout its echo, with or without the timer line.
FailureOutputs(cmd) ==
  {[out |-> o, err |-> e] :
     o \in Chunkings(EchoText(cmd)) \cup Chunkings(EchoText(cmd) \o TimerText),
     e \in {<< <<"e", "n">> >>, << <<"e">>, <<"n">> >>}}

\* What a dot command prints: its echo.
DotOutputs(cmd) == {[out |-> o, err |-> <<>>] : o \in Chunkings(EchoText(cmd))}

\* The path a COPY statement writes to.
CopyTarget(cmd) ==
  LET i == CHOOSE j \in 1..Len(cmd) : cmd[j] = "TO"
  IN ReadLiteral(cmd, i + 2, <<>>).value

\* The call that wrote the line the process is taking: every call so far
\* wrote its line, in call order, while the process was running.
Serving == Len(calls) - Len(stdin) + 1

Emit(o) ==
  /\ stdout' = stdout \o o.out
  /\ stderr' = stderr \o o.err
  /\ diagnosed' = IF o.err # <<>> THEN diagnosed \cup {Serving} ELSE diagnosed

\* The process takes the next line of its input and runs it.
ProcStep ==
  /\ procAlive
  /\ stdin # <<>>
  /\ LET line == Head(stdin)
         cmd == SubSeq(line, 1, Len(line) - 1)
     IN /\ stdin' = IF cmd = QExit THEN <<>> ELSE Tail(stdin)
        /\ procAlive' = (cmd # QExit)
        /\ echo' = (echo \/ cmd = EchoOnCmd)
        /\ timer' = (timer \/ cmd = TimerOnCmd)
        /\ CASE cmd = QExit ->
                  UNCHANGED <<tableExists, history, files, stdout, stderr, diagnosed>>
             [] Head(cmd) = "." /\ cmd # QExit ->
                  /\ \E o \in DotOutputs(cmd) : Emit(o)
                  /\ UNCHANGED <<tableExists, history, files>>
             [] Head(cmd) = "CREATE" ->
                  /\ tableExists' = TRUE
                  /\ \E o \in SuccessOutputs(cmd) : Emit(o)
                  /\ UNCHANGED <<history, files>>
             [] Head(cmd) = "INSERT" ->
                  LET p == ParseInsert(cmd)
                  IN IF p.ok /\ tableExists
                     THEN /\ history' = Append(history, p.row)
                          /\ \E o \in SuccessOutputs(cmd) : Emit(o)
                          /\ UNCHANGED <<tableExists, files>>
                     ELSE /\ \E o \in FailureOutputs(cmd) : Emit(o)
                          /\ UNCHANGED <<tableExists, history, files>>
             [] Head(cmd) = "COPY" ->
                  \/ /\ files' = files \cup {CopyTarget(cmd)}
                     /\ \E o \in SuccessOutputs(cmd) : Emit(o)
                     /\ UNCHANGED <<tableExists, history>>
                  \/ /\ \E o \in FailureOutputs(cmd) : Emit(o)
                     /\ UNCHANGED <<tableExists, history, files>>
             [] OTHER ->
                  /\ \E o \in SuccessOutputs(cmd) \cup FailureOutputs(cmd) : Emit(o)
                  /\ UNCHANGED <<tableExists, history, files>>
  /\ UNCHANGED <<mainPc, stdoutReads, stderrReads, calls, saved, reqs>>
  /\ UNCHANGED <<hostVars, wsVars, clientVars, handleVars, sessVars>>

\* ------------------------------------------------ router.post("/api/query")
\* A request arrives: the text is hashed and saved, and runCmd is called
\* with the text (json) or with the COPY statement around it (parquet).
FirstCmd(query, format, hash) ==
  IF format = "parquet" THEN CopyCmd(query, ParquetPath(hash)) ELSE query

HttpQuery(query, format) ==
  /\ mainPc = "listening"
  /\ Len(reqs) < MaxReq
  /\ LET hash == hashQuery(query)
         cmd == FirstCmd(query, format, hash)
     IN /\ files' = files \cup {SqlPath(hash)}
        /\ calls' = Append(calls, NewCall(cmd))
        /\ stdin' = Written(stdin, procAlive, cmd)
        /\ reqs' = Append(reqs, [query |-> query, format |-> format, hash |-> hash,
                                 pc |-> "cmd", cmd |-> Len(calls) + 1, save |-> 0,
                                 queryTime |-> 0, status |-> 0, body |-> <<>>])
  /\ UNCHANGED <<mainPc, procAlive, echo, timer, tableExists, history, stdout,
                 stderr, stdoutReads, stderrReads, diagnosed, saved>>
  /\ UNCHANGED <<hostVars, wsVars, clientVars, handleVars, sessVars>>

\* The artifact path handed to saveQueryHistory.
ResultFile(format, hash) == IF format = "parquet" THEN ParquetPath(hash) ELSE <<>>

\* catch (error): status 400 and { error: error.message }
ErrorResponse(r, c) ==
  [reqs EXCEPT ![r].pc = "done", ![r].status = 400,
               ![r].body = <<"error">> \o Trim(calls[c].err)]

\* await db.runCmd(...) settles: on a return the elapsed time is taken and
\* saveQueryHistory is called, on a throw the catch block answers.
QueryCmdSettled(r, elapsed) ==
  /\ reqs[r].pc = "cmd"
  /\ Settled(reqs[r].cmd)
  /\ IF calls[reqs[r].cmd].pc = "returned"
     THEN LET cmd == InsertCmd(reqs[r].hash, reqs[r].query,
                               ResultFile(reqs[r].format, reqs[r].hash), elapsed)
          IN /\ calls' = Append(calls, NewCall(cmd))
             /\ stdin' = Written(stdin, procAlive, cmd)
             /\ reqs' = [reqs EXCEPT ![r].pc = "save", ![r].save = Len(calls) + 1,
                                     ![r].queryTime = elapsed]
     ELSE /\ reqs' = ErrorResponse(r, reqs[r].cmd)
          /\ UNCHANGED <<calls, stdin>>
  /\ UNCHANGED <<mainPc, procAlive, echo, timer, tableExists, history, files,
                 stdout, stderr, stdoutReads, stderrReads, diagnosed, saved>>
  /\ UNCHANGED <<hostVars, wsVars, clientVars, handleVars, sessVars>>

\* await db.saveQueryHistory(...) settles: on a return the body is the
\* command's output (json) or the file read back (parquet, a missing file
\* throws), on a throw the catch block answers.
QuerySaveSettled(r) ==
  /\ reqs[r].pc = "save"
  /\ Settled(reqs[r].save)
  /\ reqs' =
       IF calls[reqs[r].save].pc = "threw" THEN ErrorResponse(r, reqs[r].save)
       ELSE IF reqs[r].format = "json"
       THEN [reqs EXCEPT ![r].pc = "done", ![r].status = 200,
                         ![r].body = <<"output">> \o Trim(calls[reqs[r].cmd].out)]
       ELSE IF ParquetPath(reqs[r].hash) \in files
       THEN [reqs EXCEPT ![r].pc = "done", ![r].status = 200,
                         ![r].body = <<"file">> \o ParquetPath(reqs[r].hash)]
       ELSE [reqs EXCEPT ![r].pc = "done", ![r].status = 400,
                         ![r].body = <<"error", "e">>]
  /\ UNCHANGED <<mainPc, procVars, stdoutReads, stderrReads, calls, diagnosed, saved>>
  /\ UNCHANGED <<hostVars, wsVars, clientVars, handleVars, sessVars>>

\* ------------------------------------------------------- specification
Init ==
  /\ mainPc = "main"
  /\ procAlive = FALSE
  /\ echo = FALSE
  /\ timer = FALSE
  /\ tableExists = FALSE
  /\ history = <<>>
  /\ files = {}
  /\ stdin = <<>>
  /\ stdout = <<>>
  /\ stderr = <<>>
  /\ stdoutReads = <<>>
  /\ stderrReads = <<>>
  /\ calls = <<>>
  /\ diagnosed = {}
  /\ saved = <<>>
  /\ reqs = <<>>
  /\ conns = 0
  /\ wsOpen = FALSE
  /\ duckdbProcess = FALSE
  /\ toServer = <<>>
  /\ toClient = <<>>
  /\ wsStdin = <<>>
  /\ wsStdout = <<>>
  /\ wsStderr = <<>>
  /\ written = <<>>
  /\ sent = <<>>
  /\ succeeded = <<>>
  /\ framing = "json"
  /\ wsReads = <<>>
  /\ currentQuery = <<>>
  /\ previousCommands = <<>>
  /\ commandIndex = -1
  /\ output = <<>>
  /\ dbName = <<>>
  /\ loading = FALSE
  /\ startTime = 0
  /\ now = 0
  /\ stdinClosed = FALSE
  /\ closeCalls = <<>>
  /\ serverUp = TRUE
  /\ sessions = <<>>
  /\ procs = <<>>
  /\ build = "none"
  /\ os = "none"
  /\ arch = "none"
  /\ onPath = FALSE
  /\ cached = FALSE
  /\ bootPc = "off"
  /\ dbPath = "none"
  /\ url = <<>>
  /\ ensureLog = <<>>
  /\ spawned = 0
  /\ jobs = <<>>
  /\ tables = {}
  /\ prepared = <<>>
  /\ link = NoLink

vars == <<restVars, wsVars, clientVars, handleVars, sessVars, hostVars>>

CallStep ==
  \E c \in 1..Len(calls) : WriteDone(c) \/ ReadStdout(c) \/ ReadStderr(c)

HandlerStep ==
  \/ \E r \in 1..Len(reqs), elapsed \in 0..MaxElapsed : QueryCmdSettled(r, elapsed)
  \/ \E r \in 1..Len(reqs) : QuerySaveSettled(r)

Next ==
  \/ Construct
  \/ \E query \in Queries, format \in Formats : HttpQuery(query, format)
  \/ \E c \in 1..Len(calls) : WriteDone(c)
  \/ \E c \in 1..Len(calls) : ReadStdout(c)
  \/ \E c \in 1..Len(calls) : ReadStderr(c)
  \/ \E r \in 1..Len(reqs), elapsed \in 0..MaxElapsed : QueryCmdSettled(r, elapsed)
  \/ \E r \in 1..Len(reqs) : QuerySaveSettled(r)
  \/ ProcStep

Spec == Init /\ [][Next]_vars

\* ------------------------------------- saveQueryHistory called directly
\* The texts and artifact paths saveQueryHistory is handed.
Texts == UNION {[1..k -> {"s", "'"}] : k \in 0..MaxTextLen}

Paths == {<<>>, <<"q">>, <<"q", "'">>}

\* db.saveQueryHistory(queryHash, queryText, resultFile, queryTime): the
\* statement is built and handed to runCmd.
SaveQueryHistory(queryHash, queryText, resultFile, queryTime) ==
  /\ mainPc = "listening"
  /\ Len(saved) < MaxSaves
  /\ LET cmd == InsertCmd(queryHash, queryText, resultFile, queryTime)
     IN /\ calls' = Append(calls, NewCall(cmd))
        /\ stdin' = Written(stdin, procAlive, cmd)
        /\ saved' = Append(saved, [hash |-> queryHash, text |-> queryText,
                                   file |-> resultFile, time |-> queryTime,
                                   call |-> Len(calls) + 1])
  /\ UNCHANGED <<mainPc, procAlive, echo, timer, tableExists, history, files,
                 stdout, stderr, stdoutReads, stderrReads, diagnosed, reqs>>
  /\ UNCHANGED <<hostVars, wsVars, clientVars, handleVars, sessVars>>

NextHistory ==
  \/ Construct
  \/ \E text \in Texts, file \in Paths, time \in 0..MaxElapsed :
       SaveQueryHistory(hashQuery(text), text, file, time)
  \/ \E c \in 1..Len(calls) : WriteDone(c)
  \/ \E c \in 1..Len(calls) : ReadStdout(c)
  \/ \E c \in 1..Len(calls) : ReadStderr(c)
  \/ ProcStep

\* A DuckDB object whose saveQueryHistory is called with any arguments.
SpecHistory == Init /\ [][NextHistory]_vars

\* ------------------------------------------------------- DuckDB.close
\* close() is called: this.stdin.close() is issued and awaited. Closing a
\* writer that is closed, or being closed, is rejected, and close() throws.
DbClose ==
  /\ mainPc = "listening"
  /\ Len(closeCalls) < MaxClose
  /\ IF stdinClosed
     THEN /\ closeCalls' = Append(closeCalls, "threw")
          /\ UNCHANGED stdinClosed
     ELSE /\ closeCalls' = Append(closeCalls, "closing")
          /\ stdinClosed' = TRUE
  /\ UNCHANGED <<hostVars, restVars, wsVars, clientVars, sessVars>>

\* await this.stdin.close() has settled: this.proc.kill(), which throws
\* when the subprocess has already exited.
DbCloseKill(k) ==
  /\ closeCalls[k] = "closing"
  /\ IF procAlive
     THEN /\ procAlive' = FALSE
          /\ stdin' = <<>>
          /\ closeCalls' = [closeCalls EXCEPT ![k] = "returned"]
     ELSE /\ closeCalls' = [closeCalls EXCEPT ![k] = "threw"]
          /\ UNCHANGED <<procAlive, stdin>>
  /\ UNCHANGED <<mainPc, echo, timer, tableExists, history, files, stdout,
                 stderr, stdoutReads, stderrReads, calls, diagnosed, saved, reqs>>
  /\ UNCHANGED <<hostVars, stdinClosed, wsVars, clientVars, sessVars>>

\* The CLI finds the end of its input and exits.
ProcEnd ==
  /\ procAlive
  /\ stdinClosed
  /\ stdin = <<>>
  /\ procAlive' = FALSE
  /\ UNCHANGED <<mainPc, echo, timer, tableExists, history, files, stdin,
                 stdout, stderr, stdoutReads, stderrReads, calls, diagnosed,
                 saved, reqs>>
  /\ UNCHANGED <<hostVars, handleVars, wsVars, clientVars, sessVars>>

NextClose ==
  \/ Construct
  \/ \E c \in 1..Len(calls) : WriteDone(c)
  \/ \E c \in 1..Len(calls) : ReadStdout(c)
  \/ \E c \in 1..Len(calls) : ReadStderr(c)
  \/ ProcStep
  \/ DbClose
  \/ \E k \in 1..Len(closeCalls) : DbCloseKill(k)
  \/ ProcEnd

\* A DuckDB object whose close() is called, any number of times.
SpecClose == Init /\ [][NextClose]_vars

\* =========================================================================
\* src/server.ts: handleWebSocket; src/src/client.vue: duckdbApp
\* =========================================================================
\* What the user types or pastes into the input box: "SELECT 1;", ".tables"
\* and the unterminated "SELECT 1".
ClientTexts == {<<"s", ";">>, <<".", "t">>, <<"s">>}

\* isValidQuery(): the trimmed text starts with "." or ends with ";".
isValidQuery(text) ==
  LET query == Trim(text)
  IN query # <<>> /\ (Head(query) = "." \/ query[Len(query)] = ";")

\* The two revisions of the protocol: JSON frames (src/server.ts with the
\* client's JSON.parse) and prefixed frames (the later handleWebSocket with
\* the client's split(':')).
Framings == {"json", "prefix"}

RECURSIVE JsonEscape(_), JsonReadString(_, _, _), Split(_, _), Join(_)

\* JSON.stringify of a string: the quote, the backslash and the newline are
\* escaped ("ln" is the letter n of the escape \n).
JsonEscape(str) ==
  IF str = <<>> THEN <<>>
  ELSE (CASE Head(str) = "\"" -> <<"\\", "\"">>
          [] Head(str) = "\\" -> <<"\\", "\\">>
          [] Head(str) = "n" -> <<"\\", "ln">>
          [] OTHER -> <<Head(str)>>) \o JsonEscape(Tail(str))

\* JSON.stringify({ type, data }): the token type stands for "type":"...".
FrameJson(type, data) ==
  <<"{", type, ",", "\"">> \o JsonEscape(data) \o <<"\"", "}">>

\* JSON.parse reading a string from position i up to its closing quote:
\* the string read and the position after the quote, or ok = FALSE.
JsonReadString(text, i, acc) ==
  IF i > Len(text) THEN [ok |-> FALSE, str |-> acc, next |-> i]
  ELSE IF text[i] = "\"" THEN [ok |-> TRUE, str |-> acc, next |-> i + 1]
  ELSE IF text[i] = "\\"
  THEN IF i + 1 > Len(text) THEN [ok |-> FALSE, str |-> acc, next |-> i]
       ELSE JsonReadString(text, i + 2,
              Append(acc, IF text[i + 1] = "ln" THEN "n" ELSE text[i + 1]))
  ELSE JsonReadString(text, i + 1, Append(acc, text[i]))

\* JSON.parse(event.data) and the fields message.type, message.data.
ParseJson(text) ==
  IF Len(text) >= 6 /\ text[1] = "{" /\ text[3] = "," /\ text[4] = "\""
  THEN LET r == JsonReadString(text, 5, <<>>)
       IN IF r.ok /\ r.next = Len(text) /\ text[r.next] = "}"
          THEN [ok |-> TRUE, type |-> text[2], data |-> r.str]
          ELSE [ok |-> FALSE, type |-> "", data |-> <<>>]
  ELSE [ok |-> FALSE, type |-> "", data |-> <<>>]

\* ws.send(`${stream}:${content}`): the token stream stands for its name.
FramePrefix(stream, content) == <<stream, ":">> \o content

\* data.split(':')
Split(text, acc) ==
  IF text = <<>> THEN <<acc>>
  ELSE IF Head(text) = ":" THEN <<acc>> \o Split(Tail(text), <<>>)
  ELSE Split(Tail(text), Append(acc, Head(text)))

\* contentParts.join(':')
Join(parts) ==
  IF parts = <<>> THEN <<>>
  ELSE IF Len(parts) = 1 THEN parts[1]
  ELSE parts[1] \o <<":">> \o Join(Tail(parts))

\* const [type, content] = data.split(':'): the content up to its first
\* colon only.
ParsePrefixTwoParts(text) ==
  LET parts == Split(text, <<>>)
  IN [ok |-> TRUE,
      type |-> IF Len(parts[1]) = 1 THEN parts[1][1] ELSE "",
      data |-> IF Len(parts) > 1 THEN parts[2] ELSE <<>>]

\* const [type, ...contentParts] = data.split(':'); the type is the text
\* before the first colon.
ParsePrefix(text) ==
  LET parts == Split(text, <<>>)
  IN [ok |-> TRUE,
      type |-> IF Len(parts[1]) = 1 THEN parts[1][1] ELSE "",
      data |-> Join(Tail(parts))]

\* What ws.send is handed for a chunk, and what the client makes of it.
Frame(type, data) ==
  IF framing = "json" THEN FrameJson(type, data) ELSE FramePrefix(type, data)

Parse(text) ==
  IF framing = "json" THEN ParseJson(text) ELSE ParsePrefix(text)

\* The page loads: duckdbApp() starts from its initial state and opens the
\* socket; handleWebSocket spawns the subprocess and takes its input writer.
Connect ==
  /\ conns < MaxConn
  /\ ~wsOpen
  /\ conns' = conns + 1
  /\ wsOpen' = TRUE
  /\ duckdbProcess' = TRUE
  /\ toServer' = <<>>
  /\ toClient' = <<>>
  /\ wsStdin' = <<>>
  /\ wsStdout' = <<>>
  /\ wsStderr' = <<>>
  /\ written' = <<>>
  /\ sent' = <<>>
  /\ succeeded' = <<>>
  /\ framing' \in Framings
  /\ wsReads' = <<>>
  /\ currentQuery' = <<>>
  /\ previousCommands' = <<>>
  /\ commandIndex' = -1
  /\ output' = <<>>
  /\ dbName' = <<>>
  /\ loading' = FALSE
  /\ startTime' = 0
  /\ UNCHANGED <<hostVars, restVars, handleVars, sessVars, now>>

\* setQuery(query), and typing: the input box takes a text.
setQuery(query) ==
  /\ currentQuery' = query
  /\ UNCHANGED <<previousCommands, commandIndex, output, dbName, loading,
                 startTime, now>>
  /\ UNCHANGED <<hostVars, restVars, handleVars, sessVars, wsVars>>

\* sendQuery() without its isValidQuery() test.
sendQueryUnchecked ==
  /\ conns > 0
  /\ Len(previousCommands) < MaxSend
  /\ startTime' = now
  /\ toServer' = IF wsOpen THEN Append(toServer, currentQuery) ELSE toServer
  /\ output' = Append(output, [kind |-> "command", text |-> currentQuery])
  /\ previousCommands' = <<[query |-> currentQuery, time |-> 0]>> \o previousCommands
  /\ currentQuery' = <<>>
  /\ loading' = TRUE
  /\ commandIndex' = -1
  /\ UNCHANGED <<dbName, now>>
  /\ UNCHANGED <<hostVars, restVars, handleVars, sessVars, framing, wsReads, conns, wsOpen, duckdbProcess, toClient, wsStdin,
                 wsStdout, wsStderr, written, sent, succeeded>>

\* sendQuery(): a valid text is sent as it stands and recorded.
sendQuery ==
  /\ conns > 0
  /\ Len(previousCommands) < MaxSend
  /\ IF isValidQuery(currentQuery)
     THEN /\ startTime' = now
          /\ toServer' = IF wsOpen THEN Append(toServer, currentQuery) ELSE toServer
          /\ output' = Append(output, [kind |-> "command", text |-> currentQuery])
          /\ previousCommands' = <<[query |-> currentQuery, time |-> 0]>> \o previousCommands
          /\ currentQuery' = <<>>
          /\ loading' = TRUE
          /\ commandIndex' = -1
     ELSE UNCHANGED <<startTime, toServer, output, previousCommands,
                      currentQuery, loading, commandIndex>>
  /\ UNCHANGED <<dbName, now>>
  /\ UNCHANGED <<hostVars, restVars, handleVars, sessVars, framing, wsReads, conns, wsOpen, duckdbProcess, toClient, wsStdin,
                 wsStdout, wsStderr, written, sent, succeeded>>

\* ws.onmessage on the server: a text frame is written to the subprocess
\* with a newline appended.
ServerOnMessage ==
  /\ wsOpen
  /\ toServer # <<>>
  /\ toServer' = Tail(toServer)
  /\ wsStdin' = Written(wsStdin, duckdbProcess, Head(toServer))
  /\ written' = IF duckdbProcess THEN Append(written, Line(Head(toServer))) ELSE written
  /\ UNCHANGED <<conns, wsOpen, duckdbProcess, toClient, wsStdout, wsStderr,
                 sent, succeeded>>
  /\ UNCHANGED <<hostVars, restVars, handleVars, sessVars, clientVars, framing, wsReads>>

\* The chunks of a result: a line of text, and a text with a quote and a
\* colon in it.
StdoutChunks == {<<"d", "n">>, <<"\"", ":">>}

\* The subprocess takes the next line and answers it with one chunk: its
\* result on stdout, or an error line on stderr.
WsProcStep ==
  /\ duckdbProcess
  /\ wsStdin # <<>>
  /\ wsStdin' = Tail(wsStdin)
  /\ \/ /\ \E chunk \in StdoutChunks : wsStdout' = Append(wsStdout, chunk)
        /\ succeeded' = Append(succeeded, SubSeq(Head(wsStdin), 1, Len(Head(wsStdin)) - 1))
        /\ UNCHANGED wsStderr
     \/ /\ wsStderr' = Append(wsStderr, <<"e", "n">>)
        /\ UNCHANGED <<wsStdout, succeeded>>
  /\ UNCHANGED <<conns, wsOpen, duckdbProcess, toServer, toClient, written, sent>>
  /\ UNCHANGED <<hostVars, restVars, handleVars, sessVars, clientVars, framing, wsReads>>

\* The stdout reader task skipping a chunk while an earlier frame is still
\* on its way to the client.
ForwardStdoutUnlessBusy ==
  /\ wsOpen
  /\ wsStdout # <<>>
  /\ wsStdout' = Tail(wsStdout)
  /\ wsReads' = Append(wsReads, [stream |-> "stdout", data |-> Head(wsStdout)])
  /\ IF toClient = <<>>
     THEN /\ toClient' = Append(toClient, Frame("stdout", Head(wsStdout)))
          /\ sent' = Append(sent, Frame("stdout", Head(wsStdout)))
     ELSE UNCHANGED <<toClient, sent>>
  /\ UNCHANGED <<conns, wsOpen, duckdbProcess, toServer, wsStdin, wsStderr,
                 written, succeeded>>
  /\ UNCHANGED <<hostVars, restVars, handleVars, sessVars, clientVars, framing>>

\* The stdout reader task forwards one chunk.
ForwardStdout ==
  /\ wsOpen
  /\ wsStdout # <<>>
  /\ wsStdout' = Tail(wsStdout)
  /\ toClient' = Append(toClient, Frame("stdout", Head(wsStdout)))
  /\ wsReads' = Append(wsReads, [stream |-> "stdout", data |-> Head(wsStdout)])
  /\ sent' = Append(sent, Frame("stdout", Head(wsStdout)))
  /\ UNCHANGED <<conns, wsOpen, duckdbProcess, toServer, wsStdin, wsStderr,
                 written, succeeded>>
  /\ UNCHANGED <<hostVars, restVars, handleVars, sessVars, clientVars, framing>>

\* The stderr reader task treating a diagnostic as the end of the session.
ForwardStderrFatal ==
  /\ wsOpen
  /\ wsStderr # <<>>
  /\ wsStderr' = Tail(wsStderr)
  /\ toClient' = Append(toClient, Frame("stderr", Head(wsStderr)))
  /\ wsReads' = Append(wsReads, [stream |-> "stderr", data |-> Head(wsStderr)])
  /\ sent' = Append(sent, Frame("stderr", Head(wsStderr)))
  /\ wsOpen' = FALSE
  /\ duckdbProcess' = FALSE
  /\ UNCHANGED <<conns, toServer, wsStdin, wsStdout, written, succeeded>>
  /\ UNCHANGED <<hostVars, restVars, handleVars, sessVars, clientVars, framing>>

\* The stderr reader task forwards one chunk.
ForwardStderr ==
  /\ wsOpen
  /\ wsStderr # <<>>
  /\ wsStderr' = Tail(wsStderr)
  /\ toClient' = Append(toClient, Frame("stderr", Head(wsStderr)))
  /\ wsReads' = Append(wsReads, [stream |-> "stderr", data |-> Head(wsStderr)])
  /\ sent' = Append(sent, Frame("stderr", Head(wsStderr)))
  /\ UNCHANGED <<conns, wsOpen, duckdbProcess, toServer, wsStdin, wsStdout,
                 written, succeeded>>
  /\ UNCHANGED <<hostVars, restVars, handleVars, sessVars, clientVars, framing>>

\* message.startsWith("Using database:"): no chunk of the model does.
IsBanner(message) == message # <<>> /\ Head(message) = "U"

\* updateLatestExecutionTime(): the newest record takes the time since the
\* last send.
WithLatestTime(commands, elapsed) ==
  IF Len(commands) > 0 THEN [commands EXCEPT ![1].time = elapsed] ELSE commands

\* ws.onmessage in the client: handleMessage or handleError by the tag,
\* then updateLatestExecutionTime() and loading = false.
ClientOnMessage ==
  /\ wsOpen
  /\ toClient # <<>>
  /\ LET message == Parse(Head(toClient))
     IN /\ toClient' = Tail(toClient)
        /\ IF message.type = "stdout" /\ framing = "json" /\ IsBanner(message.data)
           THEN dbName' = message.data /\ UNCHANGED output
           ELSE IF message.type \in {"stdout", "stderr"}
           THEN /\ output' = Append(output, [kind |-> message.type, text |-> message.data])
                /\ UNCHANGED dbName
           ELSE UNCHANGED <<output, dbName>>
  /\ previousCommands' = WithLatestTime(previousCommands, now - startTime)
  /\ loading' = FALSE
  /\ UNCHANGED <<currentQuery, commandIndex, startTime, now>>
  /\ UNCHANGED <<conns, wsOpen, duckdbProcess, toServer, wsStdin, wsStdout,
                 wsStderr, written, sent, succeeded>>
  /\ UNCHANGED <<hostVars, restVars, handleVars, sessVars, framing, wsReads>>

\* Time passes.
Tick ==
  /\ conns > 0
  /\ now < MaxClock
  /\ now' = now + 1
  /\ UNCHANGED <<currentQuery, previousCommands, commandIndex, output, dbName,
                 loading, startTime>>
  /\ UNCHANGED <<hostVars, restVars, handleVars, sessVars, wsVars>>

\* The client goes away; ws.onclose closes the input writer and kills the
\* subprocess.
Close ==
  /\ wsOpen
  /\ wsOpen' = FALSE
  /\ duckdbProcess' = FALSE
  /\ toServer' = <<>>
  /\ toClient' = <<>>
  /\ wsStdin' = <<>>
  /\ UNCHANGED <<conns, wsStdout, wsStderr, written, sent, succeeded>>
  /\ UNCHANGED <<hostVars, restVars, handleVars, sessVars, clientVars, framing, wsReads>>

\* ---------------------------------------------------- the input box
\* The keys that put a character into the input box.
Keys == {"s", ";"}

\* Typing with the cursor at the end: the box is bound to currentQuery.
Type(ch) ==
  /\ conns > 0
  /\ Len(currentQuery) < MaxQueryLen
  /\ currentQuery' = Append(currentQuery, ch)
  /\ UNCHANGED <<previousCommands, commandIndex, output, dbName, loading,
                 startTime, now>>
  /\ UNCHANGED <<hostVars, restVars, handleVars, sessVars, wsVars>>

\* handleEnterKey(event): Enter without Shift on a valid text sends it;
\* otherwise a newline replaces the selection start..end of the box.
handleEnterKey(shiftKey, start, end) ==
  IF ~shiftKey /\ isValidQuery(currentQuery)
  THEN sendQuery
  ELSE /\ conns > 0
       /\ Len(currentQuery) - (end - start) < MaxQueryLen
       /\ currentQuery' = SubSeq(currentQuery, 1, start) \o <<"n">>
                            \o SubSeq(currentQuery, end + 1, Len(currentQuery))
       /\ UNCHANGED <<previousCommands, commandIndex, output, dbName, loading,
                      startTime, now>>
       /\ UNCHANGED <<hostVars, restVars, handleVars, sessVars, wsVars>>

\* The directions the page's key bindings pass to navigateHistory.
Directions == {"up", "down"}

\* The cursor after navigateHistory(direction) in the revision that speaks
\* JSON frames: one step up below the oldest command, one step down above
\* -1, otherwise where it was.
NavIfElse(index, length, direction) ==
  IF direction = "up" /\ index < length - 1
  THEN index + 1
  ELSE IF direction = "down" /\ index > -1
  THEN index - 1
  ELSE index

Max(a, b) == IF a >= b THEN a ELSE b
Min(a, b) == IF a <= b THEN a ELSE b

\* The cursor moved one step and left wherever that leads.
NavUnclamped(index, length, direction) ==
  index + (IF direction = "up" THEN 1 ELSE -1)

\* The cursor after navigateHistory(direction) in the revision that speaks
\* prefixed frames: one step, then Math.max(-1, Math.min(index, length - 1)).
NavClamp(index, length, direction) ==
  Max(-1, Min(index + (IF direction = "up" THEN 1 ELSE -1), length - 1))

\* navigateHistory(direction): the cursor moves through previousCommands
\* and the box shows the command under it, or nothing at -1.
navigateHistory(direction) ==
  /\ conns > 0
  /\ commandIndex' =
       IF framing = "json"
       THEN NavIfElse(commandIndex, Len(previousCommands), direction)
       ELSE NavClamp(commandIndex, Len(previousCommands), direction)
  /\ currentQuery' = IF commandIndex' = -1 THEN <<>>
                     ELSE previousCommands[commandIndex' + 1].query
  /\ UNCHANGED <<previousCommands, output, dbName, loading, startTime, now>>
  /\ UNCHANGED <<hostVars, restVars, handleVars, sessVars, wsVars>>

NextInput ==
  \/ Connect
  \/ \E ch \in Keys : Type(ch)
  \/ \E shiftKey \in BOOLEAN, start \in 0..Len(currentQuery) :
       \E end \in start..Len(currentQuery) :
         Len(previousCommands) < MaxSubmit /\ handleEnterKey(shiftKey, start, end)
  \/ \E direction \in Directions : navigateHistory(direction)
  \/ \E query \in ClientTexts : setQuery(query)
  \/ Len(previousCommands) < MaxSubmit /\ sendQuery
  \/ ServerOnMessage
  \/ Close

\* The user at the input box of one page, and the server's onmessage.
SpecInput == Init /\ [][NextInput]_vars

NextNav ==
  \/ conns = 0 /\ Connect
  \/ \E query \in ClientTexts : setQuery(query)
  \/ Len(previousCommands) < MaxNav /\ sendQuery
  \/ \E direction \in Directions : navigateHistory(direction)

\* The history of one page: commands sent, recalled and edited.
SpecNav == Init /\ [][NextNav]_vars

NextWs ==
  \/ Connect
  \/ \E query \in ClientTexts : setQuery(query)
  \/ sendQuery
  \/ ServerOnMessage
  \/ WsProcStep
  \/ ForwardStdout
  \/ ForwardStderr
  \/ ClientOnMessage
  \/ Tick
  \/ Close

\* One browser client on one WebSocket connection.
SpecWs == Init /\ [][NextWs]_vars

NextRelay ==
  \/ conns = 0 /\ Connect
  \/ \E query \in ClientTexts : setQuery(query)
  \/ Len(previousCommands) < MaxRelay /\ sendQuery
  \/ ServerOnMessage
  \/ WsProcStep
  \/ ForwardStdout
  \/ ForwardStderr
  \/ ClientOnMessage
  \/ Close

\* One client and its one session, the clock left aside.
SpecRelay == Init /\ [][NextRelay]_vars

\* The event loop delivers every frame that has arrived and resumes every
\* reader whose chunk is there, and the operating system runs the
\* subprocess; the user is not obliged to type, to send or to stay.
FairRelay ==
  /\ SpecRelay
  /\ WF_vars(ServerOnMessage)
  /\ WF_vars(WsProcStep)
  /\ WF_vars(ForwardStdout)
  /\ WF_vars(ForwardStderr)
  /\ WF_vars(ClientOnMessage)

\* =========================================================================
\* src/server.ts: the sessions of handleWebSocket and their subprocesses
\* =========================================================================
\* An error nothing catches (a rejected promise of an async handler, or an
\* exception thrown by an event handler) ends the server program: its
\* sockets and its ends of the pipes close, no handler runs any more, and
\* each subprocess finds the end of its input.
Uncaught(ss, pp) ==
  /\ serverUp' = FALSE
  /\ sessions' = [i \in DOMAIN ss |->
                    [ss[i] EXCEPT !.ws = "closed",
                                  !.writer = IF @ = "open" THEN "closed" ELSE @]]
  /\ procs' = [i \in DOMAIN pp |-> [pp[i] EXCEPT !.eof = TRUE]]

\* handleWebSocket(ws, dbFilename) with a socket the client has not closed:
\* a subprocess is spawned and its input writer taken.
AcceptShared ==
  /\ serverUp
  /\ Len(sessions) < MaxSessions
  /\ procs' = IF procs = <<>>
              THEN <<[state |-> "running", lines |-> 0, eof |-> FALSE]>>
              ELSE procs
  /\ sessions' = Append(sessions, [ws |-> "open", pid |-> 1,
                                   writer |-> "open",
                                   reading |-> TRUE, notices |-> 0])
  /\ UNCHANGED <<hostVars, serverUp, restVars, wsVars, clientVars, handleVars>>

Accept ==
  /\ serverUp
  /\ Len(sessions) < MaxSessions
  /\ procs' = Append(procs, [state |-> "running", lines |-> 0, eof |-> FALSE])
  /\ sessions' = Append(sessions, [ws |-> "open", pid |-> Len(procs) + 1,
                                   writer |-> "open",
                                   reading |-> TRUE, notices |-> 0])
  /\ UNCHANGED <<hostVars, serverUp, restVars, wsVars, clientVars, handleVars>>

\* ws.onmessage with a write that fails kept to itself.
OnMessageSwallowed(s) ==
  /\ serverUp
  /\ s \in DOMAIN sessions
  /\ sessions[s].ws = "open"
  /\ procs[sessions[s].pid].lines < MaxMsgs
  /\ IF procs[sessions[s].pid].state = "running"
     THEN /\ procs' = [procs EXCEPT ![sessions[s].pid].lines = @ + 1]
          /\ UNCHANGED sessions
     ELSE /\ sessions' = [sessions EXCEPT ![s].writer = "errored"]
          /\ UNCHANGED procs
  /\ UNCHANGED <<hostVars, serverUp, restVars, wsVars, clientVars, handleVars>>

\* ws.onmessage: await stdinWriter.write(data + "\n"). The write to a
\* subprocess that has exited is rejected, and the handler has no catch.
OnMessage(s) ==
  /\ serverUp
  /\ s \in DOMAIN sessions
  /\ sessions[s].ws = "open"
  /\ procs[sessions[s].pid].lines < MaxMsgs
  /\ IF procs[sessions[s].pid].state = "running"
     THEN /\ procs' = [procs EXCEPT ![sessions[s].pid].lines = @ + 1]
          /\ UNCHANGED <<serverUp, sessions>>
     ELSE Uncaught([sessions EXCEPT ![s].writer = "errored"], procs)
  /\ UNCHANGED <<hostVars, restVars, wsVars, clientVars, handleVars>>

\* The subprocess takes a line of its input.
ProcRead(p) ==
  /\ p \in DOMAIN procs
  /\ procs[p].state = "running"
  /\ procs[p].lines > 0
  /\ procs' = [procs EXCEPT ![p].lines = @ - 1]
  /\ UNCHANGED <<hostVars, serverUp, sessions, restVars, wsVars, clientVars, handleVars>>

\* The subprocess exits on its own: on a command such as .exit, or a crash.
ProcExit(p) ==
  /\ p \in DOMAIN procs
  /\ procs[p].state = "running"
  /\ procs' = [procs EXCEPT ![p].state = "exited"]
  /\ UNCHANGED <<hostVars, serverUp, sessions, restVars, wsVars, clientVars, handleVars>>

\* The subprocess finds the end of its input and exits.
ProcEof(p) ==
  /\ p \in DOMAIN procs
  /\ procs[p].state = "running"
  /\ procs[p].eof
  /\ procs[p].lines = 0
  /\ procs' = [procs EXCEPT ![p].state = "exited"]
  /\ UNCHANGED <<hostVars, serverUp, sessions, restVars, wsVars, clientVars, handleVars>>

\* The reader tasks find their streams closed: their loops end and they
\* send nothing.
ReaderDone(s) ==
  /\ serverUp
  /\ s \in DOMAIN sessions
  /\ procs[sessions[s].pid].state # "running"
  /\ sessions[s].reading
  /\ sessions' = [sessions EXCEPT ![s].reading = FALSE]
  /\ UNCHANGED <<hostVars, serverUp, procs, restVars, wsVars, clientVars, handleVars>>

\* The client closes its connection: the close event is on its way.
ClientClose(s) ==
  /\ serverUp
  /\ s \in DOMAIN sessions
  /\ sessions[s].ws = "open"
  /\ sessions' = [sessions EXCEPT ![s].ws = "closing"]
  /\ UNCHANGED <<hostVars, serverUp, procs, restVars, wsVars, clientVars, handleVars>>

\* ws.onclose that closes the writer and leaves the subprocess alone.
OnCloseNoKill(s) ==
  /\ serverUp
  /\ s \in DOMAIN sessions
  /\ sessions[s].ws = "closing"
  /\ sessions' = [sessions EXCEPT ![s].ws = "closed", ![s].writer = "closed"]
  /\ UNCHANGED <<hostVars, serverUp, procs, restVars, wsVars, clientVars, handleVars>>

\* ws.onclose: stdinWriter.close(); duckdbProcess.kill(). kill() throws when
\* the subprocess has already exited, and nothing catches it.
OnClose(s) ==
  /\ serverUp
  /\ s \in DOMAIN sessions
  /\ sessions[s].ws = "closing"
  /\ LET closed == [sessions EXCEPT ![s].ws = "closed", ![s].writer = "closed"]
     IN IF procs[sessions[s].pid].state = "running"
        THEN /\ sessions' = closed
             /\ procs' = [procs EXCEPT ![sessions[s].pid].state = "killed"]
             /\ UNCHANGED serverUp
        ELSE Uncaught(closed, procs)
  /\ UNCHANGED <<hostVars, restVars, wsVars, clientVars, handleVars>>

NextSessions ==
  \/ Accept
  \/ \E s \in 1..MaxSessions : OnMessage(s)
  \/ \E p \in 1..MaxSessions : ProcRead(p)
  \/ \E p \in 1..MaxSessions : ProcExit(p)
  \/ \E p \in 1..MaxSessions : ProcEof(p)
  \/ \E s \in 1..MaxSessions : ReaderDone(s)
  \/ \E s \in 1..MaxSessions : ClientClose(s)
  \/ \E s \in 1..MaxSessions : OnClose(s)

\* The server with the sessions of several clients.
SpecSessions == Init /\ [][NextSessions]_vars

\* The event loop runs a handler whose event has arrived and the operating
\* system runs each subprocess; no client is obliged to send or to close,
\* and no subprocess is obliged to exit while it has input to wait for.
FairSessions ==
  /\ SpecSessions
  /\ \A s \in 1..MaxSessions : WF_vars(OnClose(s)) /\ WF_vars(ReaderDone(s))
  /\ \A p \in 1..MaxSessions : WF_vars(ProcRead(p)) /\ WF_vars(ProcEof(p))

\* ------------------------------------------- the start of the program
\* Two revisions of the provisioner: ensureDuckDB of src/server.ts installs
\* into the working directory ("cwd"); getDuckDB of src/src/server.ts and the
\* later ensureDuckDB install into /tmp ("tmp").
Builds == {"cwd", "tmp"}
OsNames == {"darwin", "linux", "windows", "freebsd"}
ArchNames == {"x86_64", "aarch64"}

\* The install location of each revision.
CachePath(b) == IF b = "cwd" THEN "./duckdb" ELSE "/tmp/duckdb"

\* arch === "x86_64" ? "amd64" : arch
ArchName(a) == IF a = "x86_64" THEN "amd64" ELSE a

\* The release archive: the /tmp revision knows "osx" and "linux" only; the
\* working-directory revision has one universal archive for darwin.
DownloadUrl(b, o, a) ==
  IF b = "tmp"
  THEN <<IF o = "darwin" THEN "osx" ELSE "linux", ArchName(a)>>
  ELSE CASE o = "windows" -> <<"windows", ArchName(a)>>
         [] o = "darwin" -> <<"osx", "universal">>
         [] OTHER -> <<"linux", ArchName(a)>>

\* The program is started on a machine: its platform, and which binaries
\* the machine already has.
Launch(b, o, a, p, c) ==
  /\ bootPc = "off"
  /\ build' = b
  /\ os' = o
  /\ arch' = a
  /\ onPath' = p
  /\ cached' = c
  /\ bootPc' = "ensure"
  /\ UNCHANGED <<dbPath, url, ensureLog, spawned>>
  /\ UNCHANGED <<coreVars, fileVars, bindVars, linkVars>>

\* The paths the provisioner tries, in the order it tries them, each with
\* the result of fileExists(path). `which` printing nothing gives "", which
\* does not exist.
Candidates ==
  IF build = "tmp"
  THEN <<[path |-> "which", exists |-> onPath],
         [path |-> CachePath(build), exists |-> cached]>>
  ELSE <<[path |-> CachePath(build), exists |-> cached]>>

\* The candidates tried with the install location before the search path.
CandidatesCacheFirst ==
  <<[path |-> CachePath(build), exists |-> cached],
    [path |-> "which", exists |-> onPath]>>

\* for (const path of [...]) if (await fileExists(path)) return path;
FirstExisting(cands) ==
  IF \E i \in 1..Len(cands) : cands[i].exists
  THEN cands[CHOOSE i \in 1..Len(cands) :
               /\ cands[i].exists
               /\ \A j \in 1..(i - 1) : ~cands[j].exists].path
  ELSE "none"

\* getDuckDB / ensureDuckDB up to the install command: an existing
\* candidate is returned; otherwise the archive is chosen and the install
\* command spawned. The working-directory revision throws on an operating
\* system it has no archive for.
ensureDuckDB ==
  /\ bootPc = "ensure"
  /\ LET found == FirstExisting(Candidates)
     IN IF found # "none"
        THEN /\ dbPath' = found
             /\ bootPc' = "resolved"
             /\ ensureLog' = Append(ensureLog, [how |-> "found", ok |-> TRUE])
             /\ UNCHANGED url
        ELSE IF build = "cwd" /\ os \notin {"windows", "darwin", "linux"}
        THEN /\ bootPc' = "failed"
             /\ ensureLog' = Append(ensureLog, [how |-> "unsupported", ok |-> FALSE])
             /\ UNCHANGED <<dbPath, url>>
        ELSE /\ url' = DownloadUrl(build, os, arch)
             /\ bootPc' = "installing"
             /\ UNCHANGED <<dbPath, ensureLog>>
  /\ UNCHANGED <<build, os, arch, onPath, cached, spawned>>
  /\ UNCHANGED <<coreVars, fileVars, bindVars, linkVars>>

\* The steps of the install command, curl && unzip && rm: the command
\* succeeds when all did, and the binary is in place once unzip has run.
InstallOutcomes == {"ok", "curl", "unzip", "rm"}

\* The install command has ended: success returns the install location,
\* anything else throws Error("Failed to install DuckDB.").
InstallDone(outcome) ==
  /\ bootPc = "installing"
  /\ cached' = (cached \/ outcome \in {"ok", "rm"})
  /\ ensureLog' = Append(ensureLog, [how |-> "install", ok |-> outcome = "ok"])
  /\ IF outcome = "ok"
     THEN /\ dbPath' = CachePath(build)
          /\ bootPc' = "resolved"
     ELSE /\ bootPc' = "failed"
          /\ UNCHANGED dbPath
  /\ UNCHANGED <<build, os, arch, onPath, url, spawned>>
  /\ UNCHANGED <<coreVars, fileVars, bindVars, linkVars>>

\* The error of the provisioner reported and the start carried on.
MainCatchAndServe ==
  /\ bootPc = "failed"
  /\ bootPc' = "listening"
  /\ UNCHANGED <<build, os, arch, onPath, cached, dbPath, url, ensureLog, spawned>>
  /\ UNCHANGED <<coreVars, fileVars, bindVars, linkVars>>

\* The provisioner threw: .catch(... Deno.exit(1)) in the /tmp revision; in
\* the working-directory revision the catch around the whole start logs the
\* error and the program, with nothing left to run, ends.
MainCatch ==
  /\ bootPc = "failed"
  /\ bootPc' = "exited"
  /\ UNCHANGED <<build, os, arch, onPath, cached, dbPath, url, ensureLog, spawned>>
  /\ UNCHANGED <<coreVars, fileVars, bindVars, linkVars>>

\* The provisioner returned: the program goes on to app.listen / Deno.serve.
MainListen ==
  /\ bootPc = "resolved"
  /\ bootPc' = "listening"
  /\ UNCHANGED <<build, os, arch, onPath, cached, dbPath, url, ensureLog, spawned>>
  /\ UNCHANGED <<coreVars, fileVars, bindVars, linkVars>>

\* new Deno.Command(path, ...).spawn(): the DuckDB constructor, which main
\* calls before it listens, or handleWebSocket for a connection, starts a
\* CLI process with the path the provisioner returned.
SpawnCli ==
  /\ bootPc \in {"resolved", "listening"}
  /\ spawned < MaxSpawn
  /\ spawned' = spawned + 1
  /\ UNCHANGED <<build, os, arch, onPath, cached, bootPc, dbPath, url, ensureLog>>
  /\ UNCHANGED <<coreVars, fileVars, bindVars, linkVars>>

\* Somebody stops the program, or finds it ended, and starts it again on
\* the same machine.
Restart ==
  /\ bootPc \in {"listening", "exited"}
  /\ Len(ensureLog) < MaxBoots
  /\ bootPc' = "ensure"
  /\ dbPath' = "none"
  /\ spawned' = 0
  /\ UNCHANGED <<build, os, arch, onPath, cached, url, ensureLog>>
  /\ UNCHANGED <<coreVars, fileVars, bindVars, linkVars>>

NextBoot ==
  \/ \E b \in Builds, o \in OsNames, a \in ArchNames, p \in BOOLEAN, c \in BOOLEAN :
       Launch(b, o, a, p, c)
  \/ ensureDuckDB
  \/ \E outcome \in InstallOutcomes : InstallDone(outcome)
  \/ MainCatch
  \/ MainListen
  \/ SpawnCli
  \/ Restart

SpecBoot == Init /\ [][NextBoot]_vars

\* --------------------------------------- handlers with a temporary file
\* One request: the route, where its handler is, what it was sent, the
\* temporary file, the statement handed to the engine, and the response.
\* file: "none" before makeTempFile, then "empty", "partial" while the
\* engine writes it, "complete", or "removed"; for /import "complete" from
\* the upload. stmt: "none", "queued", "writing", "done", "failed".
NewJob(route) ==
  [route |-> route, pc |-> "done", upload |-> "none", table |-> "none",
   file |-> "none", stmt |-> "none", status |-> 0, body |-> "none"]

\* The name of an uploaded file ends in a known format or in another one;
\* "none" is a form without a file, "" a form without a table name.
Uploads == {"none", "csv", "txt"}
TableNames == {"none", "t"}
ImportFormats == {"parquet", "csv", "json", "ndjson"}

\* POST /import up to its first await on the engine. A body that is not a
\* form makes formData() throw; a missing field is answered 400 at once;
\* then the upload is written to a temporary file and the import statement
\* chosen by the file's extension, the default case throwing.
ImportRequest(isForm, upload, table) ==
  /\ Len(jobs) < MaxJobs
  /\ LET job == [NewJob("import") EXCEPT !.upload = upload, !.table = table]
     IN jobs' = Append(jobs,
          IF ~isForm
          THEN [job EXCEPT !.status = 500, !.body = "error"]
          ELSE IF upload = "none" \/ table = "none"
          THEN [job EXCEPT !.status = 400, !.body = "error"]
          ELSE IF upload \notin ImportFormats
          THEN [job EXCEPT !.file = "complete", !.pc = "finally",
                           !.status = 500, !.body = "error"]
          ELSE [job EXCEPT !.file = "complete", !.pc = "exec", !.stmt = "queued"])
  /\ UNCHANGED tables
  /\ UNCHANGED <<coreVars, bootVars, bindVars, linkVars>>

\* conn.exec(importCommand, (err) => ...) calls back: the table is there
\* and the answer is the message, or the error is answered with 500.
ImportExecDone(j, ok) ==
  /\ jobs[j].route = "import"
  /\ jobs[j].pc = "exec"
  /\ IF ok /\ jobs[j].table \notin tables
     THEN /\ tables' = tables \cup {jobs[j].table}
          /\ jobs' = [jobs EXCEPT ![j].pc = "finally", ![j].stmt = "done",
                                  ![j].status = 200, ![j].body = "message"]
     ELSE /\ jobs' = [jobs EXCEPT ![j].pc = "finally", ![j].stmt = "failed",
                                  ![j].status = 500, ![j].body = "error"]
          /\ UNCHANGED tables
  /\ UNCHANGED <<coreVars, bootVars, bindVars, linkVars>>

\* finally { await Deno.remove(tempFilePath) }, and the response goes out.
Finally(j) ==
  /\ jobs[j].pc = "finally"
  /\ jobs' = [jobs EXCEPT ![j].pc = "done", ![j].file = "removed"]
  /\ UNCHANGED tables
  /\ UNCHANGED <<coreVars, bootVars, bindVars, linkVars>>

\* The engine works on a COPY statement handed to it: it opens the target,
\* creating the file anew when the name is gone, then finishes writing; or
\* the statement fails, before or while writing. What is written to a file
\* whose name was removed meanwhile is lost with it.
EngineStep(j, ok) ==
  /\ jobs[j].route # "import"
  /\ jobs[j].stmt \in {"queued", "writing"}
  /\ jobs' = [jobs EXCEPT ![j] =
       IF ~ok THEN [@ EXCEPT !.stmt = "failed"]
       ELSE IF @.stmt = "queued" THEN [@ EXCEPT !.stmt = "writing", !.file = "partial"]
       ELSE [@ EXCEPT !.stmt = "done",
                      !.file = IF @ = "partial" THEN "complete" ELSE @]]
  /\ UNCHANGED tables
  /\ UNCHANGED <<coreVars, bootVars, bindVars, linkVars>>

\* POST /export up to the return of conn.exec(sql, ...params, callback):
\* makeTempFile, then the statement is handed over, or conn.exec throws and
\* the catch answers 500.
ExportRequest(throws) ==
  /\ Len(jobs) < MaxJobs
  /\ jobs' = Append(jobs,
       IF throws
       THEN [NewJob("export") EXCEPT !.file = "empty", !.status = 500, !.body = "error"]
       ELSE [NewJob("export") EXCEPT !.file = "empty", !.pc = "exec", !.stmt = "queued"])
  /\ UNCHANGED tables
  /\ UNCHANGED <<coreVars, bootVars, bindVars, linkVars>>

\* The callback of /export runs when the statement has ended: an error is
\* answered 500; otherwise the file is read and its content answered, or
\* the read fails and 500 is answered. The removal follows in every case.
ExportCallback(j, readOk) ==
  /\ jobs[j].route = "export"
  /\ jobs[j].pc = "exec"
  /\ jobs[j].stmt \in {"done", "failed"}
  /\ jobs' = [jobs EXCEPT ![j] =
       IF @.stmt = "failed" \/ ~readOk
       THEN [@ EXCEPT !.pc = "finally", !.status = 500, !.body = "error"]
       ELSE [@ EXCEPT !.pc = "finally", !.status = 200, !.body = jobs[j].file]]
  /\ UNCHANGED tables
  /\ UNCHANGED <<coreVars, bootVars, bindVars, linkVars>>

\* POST /query with COPY, up to await Deno.readFile: makeTempFile, then
\* conn.exec(sql, ...params) with no callback, which returns at once with
\* the statement handed over, or throws into the catch.
CopyQueryRequest(throws) ==
  /\ Len(jobs) < MaxJobs
  /\ jobs' = Append(jobs,
       IF throws
       THEN [NewJob("query") EXCEPT !.file = "empty", !.pc = "finally",
                                     !.status = 500, !.body = "error"]
       ELSE [NewJob("query") EXCEPT !.file = "empty", !.pc = "read", !.stmt = "queued"])
  /\ UNCHANGED tables
  /\ UNCHANGED <<coreVars, bootVars, bindVars, linkVars>>

\* await Deno.readFile(tempFilePath) in /query: the file is read as it is
\* at that moment and answered, or the read fails and 500 is answered.
CopyQueryRead(j, readOk) ==
  /\ jobs[j].route = "query"
  /\ jobs[j].pc = "read"
  /\ jobs' = [jobs EXCEPT ![j] =
       IF readOk
       THEN [@ EXCEPT !.pc = "finally", !.status = 200, !.body = jobs[j].file]
       ELSE [@ EXCEPT !.pc = "finally", !.status = 500, !.body = "error"]]
  /\ UNCHANGED tables
  /\ UNCHANGED <<coreVars, bootVars, bindVars, linkVars>>

\* GET /api/:table?format=parquet up to await db.runCmd(COPY ...): the
\* file is the engine's to create.
TableParquetRequest ==
  /\ Len(jobs) < MaxJobs
  /\ jobs' = Append(jobs, [NewJob("table") EXCEPT !.pc = "copy", !.stmt = "queued"])
  /\ UNCHANGED tables
  /\ UNCHANGED <<coreVars, bootVars, bindVars, linkVars>>

\* await db.runCmd(...) settles in the parquet branch: a throw, or a failed
\* read after a return, goes to the catch, which answers 400; otherwise the
\* file is read, removed and answered.
TableCopySettled(j, threw, readOk) ==
  /\ jobs[j].route = "table"
  /\ jobs[j].pc = "copy"
  /\ jobs[j].stmt \in {"done", "failed"}
  /\ jobs' = [jobs EXCEPT ![j] =
       IF @.stmt = "failed" \/ threw \/ ~readOk
       THEN [@ EXCEPT !.pc = "done", !.status = 400, !.body = "error"]
       ELSE [@ EXCEPT !.pc = "done", !.status = 200, !.body = jobs[j].file,
                      !.file = "removed"]]
  /\ UNCHANGED tables
  /\ UNCHANGED <<coreVars, bootVars, bindVars, linkVars>>

NextFiles ==
  \/ \E isForm \in BOOLEAN, upload \in Uploads, table \in TableNames :
       ImportRequest(isForm, upload, table)
  \/ \E j \in 1..Len(jobs), ok \in BOOLEAN : ImportExecDone(j, ok)
  \/ \E throws \in BOOLEAN : ExportRequest(throws)
  \/ \E j \in 1..Len(jobs), readOk \in BOOLEAN : ExportCallback(j, readOk)
  \/ \E throws \in BOOLEAN : CopyQueryRequest(throws)
  \/ \E j \in 1..Len(jobs), readOk \in BOOLEAN : CopyQueryRead(j, readOk)
  \/ TableParquetRequest
  \/ \E j \in 1..Len(jobs), threw \in BOOLEAN, readOk \in BOOLEAN :
       TableCopySettled(j, threw, readOk)
  \/ \E j \in 1..Len(jobs), ok \in BOOLEAN : EngineStep(j, ok)
  \/ \E j \in 1..Len(jobs) : Finally(j)

SpecFiles == Init /\ [][NextFiles]_vars

\* ------------------------------- one connection, handlers and readers
\* handleWebSocket(ws, ...): the subprocess is spawned, the writer taken,
\* the handlers set and the two reader tasks started.
LinkOpen ==
  /\ link.sock = "none"
  /\ link' = [link EXCEPT !.sock = "open", !.child = "running", !.writer = "open"]
  /\ UNCHANGED <<coreVars, bootVars, fileVars, bindVars>>

\* A text frame of the client arrives: its message event waits for the
\* event loop.
LinkFrameArrives ==
  /\ link.up
  /\ link.sock = "open"
  /\ link.frames < MaxFrames
  /\ link' = [link EXCEPT !.inbox = @ + 1, !.frames = @ + 1]
  /\ UNCHANGED <<coreVars, bootVars, fileVars, bindVars>>

\* ws.onmessage runs for a waiting message event: the write is issued as
\* the handler starts. Message events are dispatched before the close
\* event that follows them.
LinkOnMessage ==
  /\ link.up
  /\ link.sock \in {"open", "closing"}
  /\ link.inbox > 0
  /\ link' = [link EXCEPT !.inbox = @ - 1,
                          !.writes = @ + 1,
                          !.lines = IF link.child = "running" THEN @ + 1 ELSE @]
  /\ UNCHANGED <<coreVars, bootVars, fileVars, bindVars>>

\* The subprocess takes a line and writes its answer into one of its
\* output pipes.
LinkChildStep(stream) ==
  /\ link.child = "running"
  /\ link.lines > 0
  /\ link' = [link EXCEPT !.lines = @ - 1,
                          !.out = IF stream = "stdout" THEN @ + 1 ELSE @,
                          !.err = IF stream = "stderr" THEN @ + 1 ELSE @]
  /\ UNCHANGED <<coreVars, bootVars, fileVars, bindVars>>

\* A reader task gets a chunk from its pipe (what the subprocess wrote
\* stays readable after it was killed) and calls ws.send with the frame.
\* On a socket that is no longer open the call sends nothing: it throws,
\* which nothing catches, or it returns, depending on the runtime.
LinkReader(stream, throws) ==
  /\ link.up
  /\ link.sock # "none"
  /\ IF stream = "stdout" THEN link.out > 0 ELSE link.err > 0
  /\ link' = [link EXCEPT !.out = IF stream = "stdout" THEN @ - 1 ELSE @,
                          !.err = IF stream = "stderr" THEN @ - 1 ELSE @,
                          !.sends = @ + 1,
                          !.lateSends = IF link.sock = "closed" THEN @ + 1 ELSE @,
                          !.up = link.sock = "open" \/ ~throws]
  /\ UNCHANGED <<coreVars, bootVars, fileVars, bindVars>>

\* The client closes the connection: the close event waits behind the
\* message events already there.
LinkPeerClose ==
  /\ link.up
  /\ link.sock = "open"
  /\ link' = [link EXCEPT !.sock = "closing"]
  /\ UNCHANGED <<coreVars, bootVars, fileVars, bindVars>>

\* ws.onclose: stdinWriter.close(); duckdbProcess.kill().
LinkOnClose ==
  /\ link.up
  /\ link.sock = "closing"
  /\ link.inbox = 0
  /\ link' = [link EXCEPT !.sock = "closed", !.writer = "closed",
                          !.child = "killed", !.lines = 0]
  /\ UNCHANGED <<coreVars, bootVars, fileVars, bindVars>>

Streams == {"stdout", "stderr"}

NextLink ==
  \/ LinkOpen
  \/ LinkFrameArrives
  \/ LinkOnMessage
  \/ \E stream \in Streams : LinkChildStep(stream)
  \/ \E stream \in Streams, throws \in BOOLEAN : LinkReader(stream, throws)
  \/ LinkPeerClose
  \/ LinkOnClose

\* One connection from handleWebSocket to the end of its tasks.
SpecLink == Init /\ [][NextLink]_vars

\* ------------------------------------------------------- DuckDB.query
\* A statement is a sequence of words; "?" is a placeholder, and the
\* numbered placeholder $i is the two words "$" and the digit of i.
Numbered(i) == <<"$", HexDigits[i + 1]>>

\* params.map((_, i) => `$${i + 1}`).join(', ')
RECURSIVE ParamPlaceholders(_)
ParamPlaceholders(n) ==
  IF n = 0 THEN <<>>
  ELSE IF n = 1 THEN Numbered(1)
  ELSE ParamPlaceholders(n - 1) \o <<",">> \o Numbered(n)

\* String.prototype.replace with a string pattern: the first occurrence
\* only is replaced, and a text without one is returned as it is.
ReplaceFirst(text, word, with) ==
  IF \E i \in 1..Len(text) : text[i] = word
  THEN LET i == CHOOSE k \in 1..Len(text) :
                  text[k] = word /\ \A m \in 1..(k - 1) : text[m] # word
       IN SubSeq(text, 1, i - 1) \o with \o SubSeq(text, i + 1, Len(text))
  ELSE text

\* The statement DuckDB.query(sql, params) prepares: sql.replace('?', ...).
FullSql(sql, n) == ReplaceFirst(sql, "?", ParamPlaceholders(n))

\* The names of the columns a request filters on, or sets.
Columns == <<"a", "b", "c">>

\* whereClauses.join(" AND "), setClauses.join(", "): k = ? for each key.
RECURSIVE Clauses(_, _)
Clauses(n, sep) ==
  IF n = 0 THEN <<>>
  ELSE (IF n = 1 THEN <<>> ELSE Clauses(n - 1, sep) \o <<sep>>)
         \o <<Columns[n], "=", "?">>

\* GET /api/:table with n filter parameters and the json format: the WHERE
\* clause is there when n > 0, and db.query(sql, params) is called.
GetTable(n) ==
  /\ Len(prepared) < MaxPrepared
  /\ LET sql == <<"SELECT">> \o (IF n > 0 THEN <<"WHERE">> \o Clauses(n, "AND") ELSE <<>>)
     IN prepared' = Append(prepared, [sql |-> sql, n |-> n, full |-> FullSql(sql, n)])
  /\ UNCHANGED <<coreVars, bootVars, fileVars, linkVars>>

\* PUT /api/:table/:id with a body of n fields: the values and then the id
\* are the parameters.
PutRow(n) ==
  /\ Len(prepared) < MaxPrepared
  /\ LET sql == <<"UPDATE">> \o Clauses(n, ",") \o <<"WHERE", "id", "=", "?">>
     IN prepared' = Append(prepared, [sql |-> sql, n |-> n + 1, full |-> FullSql(sql, n + 1)])
  /\ UNCHANGED <<coreVars, bootVars, fileVars, linkVars>>

\* DELETE /api/:table/:id: the id is the one parameter.
DeleteRow ==
  /\ Len(prepared) < MaxPrepared
  /\ LET sql == <<"DELETE", "WHERE", "id", "=", "?">>
     IN prepared' = Append(prepared, [sql |-> sql, n |-> 1, full |-> FullSql(sql, 1)])
  /\ UNCHANGED <<coreVars, bootVars, fileVars, linkVars>>

NextBind ==
  \/ \E n \in 0..MaxFilters : GetTable(n)
  \/ \E n \in 0..MaxFilters : PutRow(n)
  \/ DeleteRow

SpecBind == Init /\ [][NextBind]_vars

\* The event loop runs every continuation that is ready and the operating
\* system runs the CLI; nothing obliges a client to send a request.
Fairness ==
  /\ WF_vars(Construct)
  /\ WF_vars(CallStep)
  /\ WF_vars(HandlerStep)
  /\ WF_vars(ProcStep)

FairSpec == Spec /\ Fairness

\* =========================================================================
\* Properties
\* =========================================================================
MaxCalls == Len(InitCmds) + 2 * MaxReq

Started(c) == c <= Len(calls)

\* Written, or being written, and not yet returned or thrown.
InFlight(c) == Started(c) /\ ~Settled(c)

\* The call waits for output that is not there.
AwaitsStdout(c) ==
  Started(c) /\ calls[c].pc = "readOut" /\ stdout = <<>> /\ procAlive

AwaitsStderr(c) ==
  Started(c) /\ calls[c].pc = "readErr" /\ stderr = <<>> /\ procAlive

\* C1: per process handle at most one runCmd is in flight: no command is
\* written while an earlier runCmd is still awaiting its completion.
C1_OneCommandInFlight ==
  \A c, d \in 1..Len(calls) : (InFlight(c) /\ InFlight(d)) => c = d

\* C2: nothing else is written to the process input until the completion
\* or error event of the line before it has been sent to the client: at
\* most one written line is without its event.
C2_NothingElseUntilAnswered ==
  Len(written) - Len(sent) <= 1

\* C3: every runCmd call goes Idle -> Awaiting -> Matched -> Idle: once
\* started, it eventually signals its completion (returns or throws).
C3_EveryCallCompletes ==
  \A c \in 1..MaxCalls : Started(c) ~> (Started(c) /\ Settled(c))

\* C4: once the marker is in a call's buffer the call completes without
\* waiting for further output on either channel.
C4_CompletesOnMarker ==
  \A c \in 1..Len(calls) :
    HasMarker(calls[c].out) => ~(AwaitsStdout(c) \/ AwaitsStderr(c))

\* C5: a line on the diagnostic channel ends the wait of the command it
\* belongs to without the marker: that call is never left waiting for
\* primary output.
C5_DiagnosticEndsWait ==
  \A c \in diagnosed : ~AwaitsStdout(c)

\* C6: a request whose command produced diagnostic output has had the
\* History Recorder invoked for it by the time it is answered.
C6_HistoryInvokedOnError ==
  \A r \in 1..Len(reqs) :
    (reqs[r].pc = "done" /\ reqs[r].cmd \in diagnosed) => reqs[r].save # 0

\* C7: a request whose command returned its result and whose
\* saveQueryHistory threw is answered with that result as a success.
C7_HistoryFailureIsNotFatal ==
  \A r \in 1..Len(reqs) :
    (reqs[r].pc = "done" /\ reqs[r].save # 0 /\ calls[reqs[r].save].pc = "threw")
      => (reqs[r].status = 200 /\ reqs[r].body = <<"output">> \o Trim(calls[reqs[r].cmd].out))

\* The stdout-tagged events the client has received.
StdoutEvents == SelectSeq(output, LAMBDA e : e.kind = "stdout")

\* C8: once the client has received the stdout-tagged output of a command
\* that ran successfully, the history table holds exactly one row whose
\* query_text is that command's text.
C8_HistoryEntryPerCommand ==
  \A j \in 1..Len(StdoutEvents) :
    Cardinality({i \in 1..Len(history) : history[i].query_text = succeeded[j]}) = 1

\* The CLI has taken the line call c wrote.
Consumed(c) == Started(c) /\ procAlive /\ c <= Len(calls) - Len(stdin)

\* C9: once the CLI has run the statement of saveQueryHistory(hash, T, P, E),
\* the history table holds a row with exactly those values.
C9_HistoryRoundTrip ==
  \A k \in 1..Len(saved) :
    Consumed(saved[k].call) =>
      \E i \in 1..Len(history) :
        history[i] = [query_hash |-> saved[k].hash, query_text |-> saved[k].text,
                      result_file |-> saved[k].file, query_time |-> saved[k].time]

\* The well-formed submissions: the trimmed text starts with "." or ends
\* with ";".
WellFormed(text) ==
  LET t == Trim(text)
  IN t # <<>> /\ (t[1] = "." \/ t[Len(t)] = ";")

\* C11: text that is not well-formed is never sent and never written to the
\* process: every line written is well-formed, a step sends at most one
\* frame, that frame is the whole content of the input box and well-formed,
\* and a step taken with a text that is not well-formed in the box sends
\* nothing and records no command.
C11_OnlyWellFormedIsSent ==
  /\ [](\A i \in 1..Len(written) : WellFormed(written[i]))
  /\ [][/\ Len(toServer') > Len(toServer) =>
             /\ toServer' = Append(toServer, currentQuery)
             /\ WellFormed(currentQuery)
        /\ ~WellFormed(currentQuery) =>
             /\ Len(toServer') <= Len(toServer)
             /\ Len(previousCommands') <= Len(previousCommands)]_vars

\* The fragments "s" and ";" have gone to the process as the one line "s;".
C11_Witness ==
  \E i \in 1..Len(written) : written[i] = <<"s", ";", "n">>

\* The subprocess of session s.
ProcOf(s) == procs[sessions[s].pid]

\* C12: closing the client connection closes the input writer and
\* terminates the session's subprocess: once the close handler has run the
\* writer is closed and the subprocess is not running, and from the moment
\* the client closes, also with a command unread, that state is reached.
C12_CloseTearsDown ==
  /\ [](\A s \in DOMAIN sessions :
          (serverUp /\ sessions[s].ws = "closed") =>
            (sessions[s].writer = "closed" /\ ProcOf(s).state # "running"))
  /\ \A s \in 1..MaxSessions :
       (s \in DOMAIN sessions /\ sessions[s].ws # "open")
         ~> (s \in DOMAIN sessions /\ sessions[s].writer # "open"
               /\ ProcOf(s).state # "running")

\* A session closed by its client while a command was still unread, and
\* its subprocess killed by the close handler.
C12_Witness ==
  \E s \in DOMAIN sessions :
    /\ serverUp
    /\ sessions[s].ws = "closed"
    /\ sessions[s].writer = "closed"
    /\ ProcOf(s).state = "killed"
    /\ ProcOf(s).lines > 0

ErrorShown == \E i \in 1..Len(output) : output[i].kind = "stderr"

\* The stdout- and stderr-tagged events the client has been shown.
Delivered ==
  Cardinality({i \in 1..Len(output) : output[i].kind \in {"stdout", "stderr"}})

\* C14: an engine-reported error is recoverable: the step that sends a
\* stderr-tagged event leaves the session open and the subprocess running,
\* and once such an event has been shown every command the client has
\* submitted is written to the subprocess and answered with an event,
\* unless the client closes the connection first.
C14_ErrorIsRecoverable ==
  /\ [][(Len(sent') > Len(sent) /\ wsOpen) => (wsOpen' /\ duckdbProcess')]_vars
  /\ (wsOpen /\ ErrorShown /\ Delivered < Len(previousCommands))
       ~> (~wsOpen \/ (/\ Len(written) >= Len(previousCommands)
                       /\ Delivered >= Len(previousCommands)))

\* After a stderr-tagged event the client sent a command and was shown its
\* result.
C14_Witness ==
  /\ wsOpen
  /\ \E i, j, k \in 1..Len(output) :
       /\ i < j /\ j < k
       /\ output[i].kind = "stderr"
       /\ output[j].kind = "command"
       /\ output[k].kind = "stdout"

\* The events of process output the client has been shown, oldest first.
OutputEvents == SelectSeq(output, LAMBDA e : e.kind \in {"stdout", "stderr"})

\* C15: every frame sent carries the origin of its chunk: the i-th frame
\* parses to the stream the i-th chunk was read from and to that chunk's
\* data, and every event the client shows has that tag and that data.
C15_FramesCarryOrigin ==
  /\ Len(sent) = Len(wsReads)
  /\ \A i \in 1..Len(sent) :
       /\ Parse(sent[i]).ok
       /\ Parse(sent[i]).type = wsReads[i].stream
       /\ Parse(sent[i]).data = wsReads[i].data
  /\ Len(OutputEvents) <= Len(wsReads)
  /\ \A i \in 1..Len(OutputEvents) :
       /\ OutputEvents[i].kind = wsReads[i].stream
       /\ OutputEvents[i].text = wsReads[i].data

\* With prefixed frames the client has been shown a stdout chunk that has a
\* colon in it, and a stderr chunk.
C15_Witness ==
  /\ framing = "prefix"
  /\ \E i, j \in 1..Len(output) :
       /\ output[i].kind = "stdout" /\ output[i].text = <<"\"", ":">>
       /\ output[j].kind = "stderr"

\* The frames of the chunks read so far, in read order.
FramesOfReads ==
  [i \in 1..Len(wsReads) |-> Frame(wsReads[i].stream, wsReads[i].data)]

\* C16: the frames sent are the chunks read, one frame per chunk and in
\* read order, and while the connection is open the client has received
\* them in that order: what it has handled, followed by what is on its way,
\* is what was sent.
C16_DeliveredInReadOrder ==
  /\ sent = FramesOfReads
  /\ wsOpen =>
       /\ Len(OutputEvents) + Len(toClient) = Len(sent)
       /\ toClient = SubSeq(sent, Len(OutputEvents) + 1, Len(sent))
       /\ \A i \in 1..Len(OutputEvents) :
            Frame(OutputEvents[i].kind, OutputEvents[i].text) = sent[i]

\* Two chunks of different streams have been read and their frames handled
\* by the client.
C16_Witness ==
  /\ wsOpen
  /\ Len(OutputEvents) >= 2
  /\ OutputEvents[1].kind # OutputEvents[2].kind

\* C17: when the subprocess of a session exits on its own, the session is
\* eventually terminated or its client sent a notice of it, and no
\* subprocess is spawned but the one of each accepted session.
C17_ExitEndsSession ==
  /\ [](Len(procs) = Len(sessions))
  /\ \A s \in 1..MaxSessions :
       (s \in DOMAIN sessions /\ ProcOf(s).state = "exited")
         ~> (s \in DOMAIN sessions
               /\ (sessions[s].ws # "open" \/ sessions[s].notices > 0))

\* C18: a write attempted after the subprocess has exited fails, and the
\* failure is an error outcome of the session that made it: that session is
\* terminated, and the failure is handled there, so the server goes on.
C18_FailedWriteEndsItsSession ==
  \A s \in DOMAIN sessions :
    sessions[s].writer = "errored" => (sessions[s].ws # "open" /\ serverUp)

\* C19: close() is safe to call more than once: a second or later call
\* completes without an error, and it leaves the handle closed as the
\* first call left it.
C19_CloseTwiceIsSafe ==
  \A k \in 1..Len(closeCalls) :
    k > 1 => /\ closeCalls[k] # "threw"
             /\ closeCalls[k] = "returned" => (stdinClosed /\ ~procAlive)

\* The runCmd calls the constructor makes.
InitCalls == 1..Len(InitCmds)

\* C20: after the spawn the initialization commands are issued in order
\* and before anything else, so that when the CLI has run a user command
\* echo and timing are on and the history table exists; and each of the
\* initialization commands reaches its completion.
C20_InitCompletesInOrder ==
  /\ [](mainPc = "listening" =>
          \A c \in InitCalls : calls[c].cmd = InitCmds[c])
  /\ [](\A c \in 1..Len(calls) :
          (c \notin InitCalls /\ Consumed(c)) => (echo /\ timer /\ tableExists))
  /\ \A c \in InitCalls : Started(c) ~> (Started(c) /\ Settled(c))

\* The calls of the provisioner that ran the install command with success.
InstalledAt == {i \in 1..Len(ensureLog) : ensureLog[i].how = "install" /\ ensureLog[i].ok}

\* C21: the provisioner returns the binary of the install location when
\* there is one, else the one on the search path; the install command is
\* started only when neither exists; and no call after an install that
\* succeeded runs the install command again.
C21_CacheThenPathThenDownload ==
  /\ [](bootPc \in {"resolved", "listening"} => dbPath = FirstExisting(CandidatesCacheFirst))
  /\ [][bootPc' = "installing" => (~cached /\ ~onPath)]_vars
  /\ [](\A i \in InstalledAt : \A j \in (i + 1)..Len(ensureLog) :
          ensureLog[j].how # "install")

\* The latest call of the provisioner ran the install command, which failed.
InstallFailed ==
  /\ ensureLog # <<>>
  /\ ensureLog[Len(ensureLog)].how = "install"
  /\ ~ensureLog[Len(ensureLog)].ok

\* C22: an install command that fails makes the provisioner throw; the
\* program then does nothing but end: it spawns no CLI process, does not
\* start listening and does not run the provisioner again.
C22_InstallFailureIsFatal ==
  /\ [][(bootPc = "installing" /\ ~ensureLog'[Len(ensureLog')].ok) => bootPc' = "failed"]_vars
  /\ [][bootPc = "failed" => bootPc' = "exited"]_vars
  /\ [](bootPc \in {"failed", "exited"} => (spawned = 0 /\ dbPath = "none"))

C22_Witness == bootPc = "exited" /\ InstallFailed /\ ~cached

\* The commands the output pane echoes: one echo per send.
Echoed == Cardinality({i \in 1..Len(output) : output[i].kind = "command"})

\* The record of the k-th command sent: previousCommands is newest first.
RecordOf(k) == Len(previousCommands) - k + 1

\* C23: every send adds exactly one record, no step removes a record or
\* changes its text, and the step that delivers the answer to the k-th
\* command writes the elapsed time of the k-th record and of no other.
C23_RecordPerCommandOwnTime ==
  /\ [](Echoed = Len(previousCommands))
  /\ [][conns' = conns =>
          /\ Len(previousCommands') \in {Len(previousCommands), Len(previousCommands) + 1}
          /\ \A k \in 1..Len(previousCommands) :
               previousCommands'[Len(previousCommands') - k + 1].query
                 = previousCommands[RecordOf(k)].query]_vars
  /\ [][Delivered' > Delivered =>
          \A k \in 1..Len(previousCommands) :
            k # Delivered' => previousCommands'[RecordOf(k)] = previousCommands[RecordOf(k)]]_vars

\* C24: once a session has started the client comes to hold the database
\* identifier in dbName, unless the connection is closed first, and no
\* event that carries the identifier is appended to the output.
C24_SessionStartCarriesDatabase ==
  /\ wsOpen ~> (~wsOpen \/ dbName # <<>>)
  /\ [](\A i \in 1..Len(output) :
          output[i].kind = "stdout" => ~IsBanner(output[i].text))

\* The requests to POST /import that have been answered.
ImportsDone == {j \in 1..Len(jobs) : jobs[j].route = "import" /\ jobs[j].pc = "done"}

\* A request to /import without a file, without a table name, or with a
\* file of a format that is not supported.
BadImport(job) ==
  job.upload = "none" \/ job.table = "none" \/ job.upload \notin ImportFormats

\* C25: POST /import answers a bad request with 400, answers 500 only when
\* the import statement failed, and every answer other than 200 carries an
\* error object and no message of a table imported.
C25_ImportErrorStatus ==
  \A j \in ImportsDone :
    /\ BadImport(jobs[j]) => jobs[j].status = 400
    /\ jobs[j].status = 500 => jobs[j].stmt = "failed"
    /\ jobs[j].status # 200 => jobs[j].body = "error"

\* The requests to the export handlers, POST /export and POST /query.
Exports == {j \in 1..Len(jobs) : jobs[j].route \in {"export", "query"}}

\* C29: an export handler answers with the content of the temporary file
\* only as the finished COPY left it, and the file is not removed while
\* the handler has still to read it.
C29_ReadAfterCopyCompletes ==
  \A j \in Exports :
    /\ jobs[j].status = 200 => jobs[j].body = "complete"
    /\ jobs[j].file = "removed" => jobs[j].pc = "done"

\* C30: when a handler has answered and the engine has no statement of it
\* left to run, the temporary file of the request, if one was created, has
\* been removed.
C30_TempFileRemoved ==
  \A j \in 1..Len(jobs) :
    (jobs[j].pc = "done" /\ jobs[j].stmt \notin {"queued", "writing"})
      => jobs[j].file \in {"none", "removed"}

\* The text the box shows with the cursor at index.
Recalled(index) ==
  IF index = -1 THEN <<>> ELSE previousCommands[index + 1].query

\* C26: the cursor stays within -1 .. previousCommands.length - 1; a step
\* that moves the cursor puts the command under it, or nothing at -1, into
\* the box; a send puts the cursor back to -1; and from every state the
\* page reaches, the if/else and the clamp forms of navigateHistory lead
\* to the same cursor, hence the same box.
C26_HistoryCursor ==
  /\ [](commandIndex \in -1..(Len(previousCommands) - 1))
  /\ [][(commandIndex' # commandIndex /\ previousCommands' = previousCommands)
          => currentQuery' = Recalled(commandIndex')]_vars
  /\ [][Len(previousCommands') > Len(previousCommands) => commandIndex' = -1]_vars
  /\ [](\A d \in Directions :
          NavIfElse(commandIndex, Len(previousCommands), d)
            = NavClamp(commandIndex, Len(previousCommands), d))

\* The clamp revision has gone up to the older of two commands and shows it.
C26_Witness ==
  /\ framing = "prefix"
  /\ Len(previousCommands) >= 2
  /\ commandIndex = 1
  /\ currentQuery = previousCommands[2].query

\* C27: once ws.onclose has run for a connection, no reader task calls
\* ws.send on its socket and no message handler issues a write to its
\* subprocess.
C27_NothingAfterClose ==
  link.lateSends = 0 /\ link.lateWrites = 0

\* The statement with its i-th "?" replaced by $i, counting from i.
RECURSIVE Positional(_, _)
Positional(sql, i) ==
  IF sql = <<>> THEN <<>>
  ELSE IF Head(sql) = "?" THEN Numbered(i) \o Positional(Tail(sql), i + 1)
  ELSE <<Head(sql)>> \o Positional(Tail(sql), i)

\* The placeholders of a statement.
Holes(sql) == Cardinality({i \in 1..Len(sql) : sql[i] = "?"})

\* C28: every statement DuckDB.query prepares has one placeholder for each
\* parameter, and has its i-th "?" replaced by $i.
C28_PositionalBinding ==
  \A k \in 1..Len(prepared) :
    /\ Holes(prepared[k].sql) = prepared[k].n
    /\ prepared[k].full = Positional(prepared[k].sql, 1)
====
